---- MODULE Spec2Model ----
(***************************************************************************)
(* A model of the Sleipnir stimulus generator: the composite value tree    *)
(* (slp_dwarf_parser.py: BfStruct, BfUnion, BfArray, BfDtype), the frame   *)
(* randomization driver (slp_frame_randomizer.py, slp_frame_constraint.py),*)
(* the packer (slp_data_packer.py) and the data file generator             *)
(* (slp_data_randomizer.py).                                               *)
(*                                                                         *)
(* Integers are Python integers (unbounded, arithmetic shift).  x >> o is  *)
(* x \div 2^o and x & ((1 << s) - 1) is x % 2^s, both exact for negative x *)
(* as well.  Widths are scaled down so that every value fits TLC's         *)
(* integers: a packed word ("<I", 32 bits in the source) is WordBits bits  *)
(* made of four bytes of ByteBits bits.                                    *)
(***************************************************************************)
EXTENDS Integers, Sequences, FiniteSets, TLC

VARIABLES
    lay,        \* which layout (type descriptor) the tree was instantiated from
    val,        \* node -> current value (_value, or the vsc field value of a leaf)
    isRand,     \* node -> _int_field_info.is_rand
    randMode,   \* node -> rand_mode
    phase,      \* "idle" | "solved" (solver wrote the leaves, post_rand pending)
    preDone,    \* pre_rand() has run on the root
    lastOp,     \* ghost: the last operation, the kind of its node, its argument class and outcome
    everRaised, \* ghost: some operation so far raised
    everNeg,    \* ghost: some set_val so far was handed a negative value
    leafWraps,  \* the vsc library stores a leaf value modulo its width (or as given)
    cfg,        \* the rnd_cfg of the test (an index into Configs)
    ncmds,      \* num_cmds of the test
    pc,         \* where randomize_frames and its caller stand
    cmdIdx,     \* cmd_idx of the loop of randomize_frames
    active,     \* the constr_idx blocks called inside the last randomize_with
    cur,        \* the frame taken from the frames generator for this iteration
    frames,     \* the frames yielded so far, as the caller's list holds them
    events,     \* ghost: the solve / post_rand / yield events so far
    bin,        \* the bytes written to the frame binary
    test,       \* the test of the suite: its files list, its params, the frame files written
    heap,       \* the frame objects by id: rand_desc, the fetched frame, the listed frames
    extr,       \* the DWARF extractor: the DIEs, the visit, its tables and caches
    enums,      \* the enum lookup object: its tables, its memo, the lookups made
    build,      \* a node under construction: its descriptor and the outcome
    dseed,      \* seed of the input YAML
    dpat,       \* params.sleipnir.data_pattern
    dsize,      \* params.sleipnir.data_file_size
    run         \* two runs of the generator on that input: run -> its state and files

treeVars ==
    <<lay, val, isRand, randMode, phase, preDone, lastOp, everRaised, everNeg, leafWraps>>

randVars == <<cfg, ncmds, pc, cmdIdx, active, cur, frames, events, bin, test, heap>>

auxVars == <<extr, enums, build>>

dataVars == <<dseed, dpat, dsize, run>>

vars == <<treeVars, randVars, dataVars, auxVars>>

-----------------------------------------------------------------------------
(* Bit arithmetic on Python integers *)

Pow2(k) == 2 ^ k

Shr(x, o) == x \div Pow2(o)

LowBits(x, s) == x % Pow2(s)

RECURSIVE BitOr(_, _)
BitOr(a, b) ==
    IF a = 0 THEN b
    ELSE IF b = 0 THEN a
    ELSE IF a = -1 \/ b = -1 THEN -1
    ELSE (IF a % 2 = 1 \/ b % 2 = 1 THEN 1 ELSE 0) + 2 * BitOr(a \div 2, b \div 2)

\* (v & ~mask) | ((x << off) & mask) with mask = ((1 << size) - 1) << off
ReplaceWindow(v, off, size, x) ==
    v - LowBits(Shr(v, off), size) * Pow2(off) + LowBits(x, size) * Pow2(off)

-----------------------------------------------------------------------------
(* Type descriptors instantiated as node tables: node ids are 1..Len(T),   *)
(* the root is node 1, parent 0 is "no parent".                            *)

Dt(nm, p, w) ==
    [kind |-> "dtype", name |-> nm, parent |-> p, size |-> w,
     kids |-> <<>>, offs |-> <<>>, dir |-> <<>>]

St(nm, p, sz, ks, os) ==
    [kind |-> "struct", name |-> nm, parent |-> p, size |-> sz,
     kids |-> ks, offs |-> os, dir |-> <<>>]

\* kids: the arms in declaration order; dir: the arms in dir() order (sorted by name)
Un(nm, p, ks, d) ==
    [kind |-> "union", name |-> nm, parent |-> p, size |-> 0,
     kids |-> ks, offs |-> <<>>, dir |-> d]

Ar(nm, p, ks) ==
    [kind |-> "array", name |-> nm, parent |-> p, size |-> 0,
     kids |-> ks, offs |-> <<>>, dir |-> <<>>]

\* struct S { a : 2 @ 0; b : 1 @ 3 } of 5 bits: bits 2 and 4 are padding
LayPad ==
    << St("S", 0, 5, <<2, 3>>, <<0, 3>>),
       Dt("a", 1, 2),
       Dt("b", 1, 1) >>

\* union U { fields : struct of 2 bits { x : 1 @ 0; y : 1 @ 1 }; raw : u8;
\*           data : struct of 1 bit { v : 1 @ 0 } [2] }
LayUnion ==
    << Un("U", 0, <<2, 5, 6>>, <<6, 2, 5>>),
       St("fields", 1, 2, <<3, 4>>, <<0, 1>>),
       Dt("x", 2, 1),
       Dt("y", 2, 1),
       Dt("raw", 1, 8),
       Ar("data", 1, <<7, 9>>),
       St("idx_0", 6, 1, <<8>>, <<0>>),
       Dt("v", 7, 1),
       St("idx_1", 6, 1, <<10>>, <<0>>),
       Dt("v", 9, 1) >>

\* struct R { tag : 1 @ 0; u : union { s : struct of 2 bits { lo : 1 @ 0; hi : 1 @ 1 };
\*                                    w : u8 } @ 1 } of 4 bits: bit 3 is padding
LayNest ==
    << St("R", 0, 4, <<2, 3>>, <<0, 1>>),
       Dt("tag", 1, 1),
       Un("u", 1, <<4, 7>>, <<4, 7>>),
       St("s", 3, 2, <<5, 6>>, <<0, 1>>),
       Dt("lo", 4, 1),
       Dt("hi", 4, 1),
       Dt("w", 3, 8) >>

\* the width of a word of the frame binary ("<I") and of a u32 leaf
WordBits == 8

\* the width of a byte of the frame binary
ByteBits == 2

\* the Frame type of the ELF, as the driver and the packer use it:
\* union Frame { fields : struct { id : u32; type : 1; count : 2; width : 1;
\*                                 height : 1; depth : 1 } of two words; data : u32 [2] }
LayFrame ==
    << Un("Frame", 0, <<2, 9>>, <<9, 2>>),
       St("fields", 1, 2 * WordBits, <<3, 4, 5, 6, 7, 8>>,
          <<0, WordBits, WordBits + 1, WordBits + 3, WordBits + 4, WordBits + 5>>),
       Dt("id", 2, WordBits),
       Dt("type", 2, 1),
       Dt("count", 2, 2),
       Dt("width", 2, 1),
       Dt("height", 2, 1),
       Dt("depth", 2, 1),
       Ar("data", 1, <<10, 11>>),
       Dt("idx_0", 9, WordBits),
       Dt("idx_1", 9, WordBits) >>

\* struct of 2 bits { f : 1 @ 0 } [2]: bit 1 of each element is padding
LayArr ==
    << Ar("A", 0, <<2, 4>>),
       St("idx_0", 1, 2, <<3>>, <<0>>),
       Dt("f", 2, 1),
       St("idx_1", 1, 2, <<5>>, <<0>>),
       Dt("f", 4, 1) >>

\* union K { zed : struct of 1 bit { a : 1 @ 0 }; alpha : struct of 1 bit { b : 1 @ 0 } }:
\* zed is declared first, alpha is first in dir()
LayOrder ==
    << Un("K", 0, <<2, 4>>, <<4, 2>>),
       St("zed", 1, 1, <<3>>, <<0>>),
       Dt("a", 2, 1),
       St("alpha", 1, 1, <<5>>, <<0>>),
       Dt("b", 4, 1) >>

\* union W { a : struct of 1 bit { x : 1 @ 0 };
\*           b : struct of 1 bit { v : union { p : struct of 1 bit { y : 1 @ 0 }; q : u8 } @ 0 } }
LayDeep ==
    << Un("W", 0, <<2, 4>>, <<2, 4>>),
       St("a", 1, 1, <<3>>, <<0>>),
       Dt("x", 2, 1),
       St("b", 1, 1, <<5>>, <<0>>),
       Un("v", 4, <<6, 8>>, <<6, 8>>),
       St("p", 5, 1, <<7>>, <<0>>),
       Dt("y", 6, 1),
       Dt("q", 5, 8) >>

Nodes(T) == 1..Len(T)

IsComposite(T, n) == T[n].kind \in {"struct", "union", "array"}

\* the position of child c in the sequence ks
IndexOf(ks, c) == CHOOSE i \in 1..Len(ks) : ks[i] = c

RECURSIVE BitSize(_, _)
\* _size as the constructors and the _size properties compute it: the width of a
\* BfDtype (its bit-field size inside a struct), the DWARF size of a BfStruct, the
\* common size of the non-BfDtype arms of a BfUnion, element size times length of
\* a BfArray
BitSize(T, n) ==
    CASE T[n].kind = "dtype" -> T[n].size
      [] T[n].kind = "struct" -> T[n].size
      [] T[n].kind = "union" ->
            LET k == CHOOSE k \in 1..Len(T[n].kids) : T[T[n].kids[k]].kind # "dtype"
            IN BitSize(T, T[n].kids[k])
      [] T[n].kind = "array" -> BitSize(T, T[n].kids[1]) * Len(T[n].kids)

\* create_type_instance: the node table with every node's _size filled in
Instantiate(T) == [n \in DOMAIN T |-> [T[n] EXCEPT !.size = BitSize(T, n)]]

TreeLayouts ==
    << Instantiate(LayPad), Instantiate(LayUnion), Instantiate(LayNest),
       Instantiate(LayArr), Instantiate(LayOrder), Instantiate(LayDeep) >>

FrameLayout == Len(TreeLayouts) + 1

Tree(l) == IF l = FrameLayout THEN Instantiate(LayFrame) ELSE TreeLayouts[l]

SizeOf(T, n) == T[n].size

\* the order in which set_val / post_rand / pre_rand walk the members
Walk(T, n) == IF T[n].kind = "union" THEN T[n].dir ELSE T[n].kids

\* the bit offset of the i-th member (in Walk order) inside its parent
OffsetOf(T, n, i) ==
    CASE T[n].kind = "struct" -> T[n].offs[i]
      [] T[n].kind = "array" -> SizeOf(T, T[n].kids[i]) * (i - 1)
      [] OTHER -> 0

-----------------------------------------------------------------------------
(* set_val / update_from_member.  A call threads st = [val, err, ups]: the *)
(* node values so far, whether ValueError was raised (the raise unwinds    *)
(* every frame, what was written before it stays written), and the nodes   *)
(* whose update_from_member has been entered.                              *)

\* vsc.rand_bit_t.set_val: the library holds the value of a leaf
LeafStore(wraps, w, x) == IF wraps THEN LowBits(x, w) ELSE x

\* the overflow test of set_val
Overflows(T, n, x) == x >= Pow2(SizeOf(T, n))

\* the value handed down to the i-th member (in Walk order)
MemberVal(T, n, i, x) ==
    IF T[n].kind = "union" THEN x
    ELSE LowBits(Shr(x, OffsetOf(T, n, i)), SizeOf(T, Walk(T, n)[i]))

\* update_from_member writing the member at the bottom of the parent
MergedValAtZero(T, st, p, c) ==
    CASE T[p].kind = "union" -> st.val[c]
      [] T[p].kind \in {"struct", "array"} ->
            ReplaceWindow(st.val[p], 0, SizeOf(T, c), st.val[c])

\* the value update_from_member computes for parent p from its member c
MergedVal(T, st, p, c) ==
    CASE T[p].kind = "union" -> st.val[c]
      [] T[p].kind = "struct" ->
            ReplaceWindow(st.val[p], T[p].offs[IndexOf(T[p].kids, c)],
                          SizeOf(T, c), st.val[c])
      [] T[p].kind = "array" ->
            ReplaceWindow(st.val[p], (IndexOf(T[p].kids, c) - 1) * SizeOf(T, c),
                          SizeOf(T, c), st.val[c])

RECURSIVE SetVal(_, _, _, _, _, _)
RECURSIVE SetMembers(_, _, _, _, _, _)
RECURSIVE UpdateFromMember(_, _, _, _, _)

\* the tail of every set_val: notify the parent unless the parent is the caller
NotifyParent(T, w, st, n, fromParent) ==
    IF T[n].parent # 0 /\ ~fromParent
    THEN UpdateFromMember(T, w, st, T[n].parent, n)
    ELSE st

SetVal(T, w, st, n, x, fromParent) ==
    IF Overflows(T, n, x) THEN [st EXCEPT !.err = TRUE]
    ELSE IF T[n].kind = "dtype"
    THEN NotifyParent(T, w, [st EXCEPT !.val[n] = LeafStore(w, T[n].size, x)],
                      n, fromParent)
    ELSE LET down == SetMembers(T, w, [st EXCEPT !.val[n] = x], n, x, 1)
         IN IF down.err THEN down ELSE NotifyParent(T, w, down, n, fromParent)

\* the loop of set_val over the members, from the i-th on
SetMembers(T, w, st, n, x, i) ==
    IF i > Len(Walk(T, n)) THEN st
    ELSE LET one == SetVal(T, w, st, Walk(T, n)[i], MemberVal(T, n, i, x), TRUE)
         IN IF one.err THEN one ELSE SetMembers(T, w, one, n, x, i + 1)

\* update_from_member that sets the parent as if the grandparent had called
UpdateFromMemberLocal(T, w, st, p, c) ==
    SetVal(T, w, [st EXCEPT !.ups = Append(@, p)], p, MergedVal(T, st, p, c), TRUE)

UpdateFromMember(T, w, st, p, c) ==
    SetVal(T, w, [st EXCEPT !.ups = Append(@, p)], p, MergedVal(T, st, p, c), FALSE)

Call(v) == [val |-> v, err |-> FALSE, ups |-> <<>>]

-----------------------------------------------------------------------------
(* pre_rand / post_rand *)


\* BfUnion.pre_rand: the arm picked as the one the solver assigns
RandMember(T, n) ==
    LET nonDtype == SelectSeq(T[n].dir, LAMBDA k : T[k].kind # "dtype")
        nonArray == SelectSeq(nonDtype, LAMBDA k : T[k].kind # "array")
    IN IF nonArray # <<>> THEN Head(nonArray) ELSE Head(nonDtype)

RECURSIVE PreRand(_, _, _)
RECURSIVE PreRandMembers(_, _, _, _)

PreRand(T, r, n) ==
    IF T[n].kind = "union"
    THEN LET rm == RandMember(T, n)
             r1 == [k \in DOMAIN r |->
                      IF k = rm THEN TRUE
                      ELSE IF T[k].parent = n THEN FALSE ELSE r[k]]
         IN PreRand(T, r1, rm)
    ELSE PreRandMembers(T, r, n, 1)

PreRandMembers(T, r, n, i) ==
    IF i > Len(T[n].kids) THEN r
    ELSE LET k == T[n].kids[i]
         IN PreRandMembers(T, IF IsComposite(T, k) /\ r[k] THEN PreRand(T, r, k) ELSE r,
                           n, i + 1)

RECURSIVE PostRand(_, _, _, _)
RECURSIVE PostRandMembers(_, _, _, _, _)
RECURSIVE OrMembers(_, _, _, _)

\* new_value |= member.get_val() << offset over the members from the i-th on
OrMembers(T, v, n, i) ==
    IF i > Len(T[n].kids) THEN 0
    ELSE BitOr(v[T[n].kids[i]] * Pow2(OffsetOf(T, n, i)), OrMembers(T, v, n, i + 1))

PostRand(T, w, st, n) ==
    IF T[n].kind = "union"
    THEN LET comp == SelectSeq(T[n].dir, LAMBDA k : IsComposite(T, k) /\ isRand[k])
             leaf == SelectSeq(T[n].dir, LAMBDA k : T[k].kind = "dtype" /\ isRand[k])
         IN IF comp # <<>>
            THEN LET sub == PostRand(T, w, st, Head(comp))
                 IN IF sub.err THEN sub
                    ELSE SetVal(T, w, sub, n, sub.val[Head(comp)], TRUE)
            ELSE IF leaf # <<>>
            THEN SetVal(T, w, st, n, st.val[Head(leaf)], TRUE)
            ELSE [st EXCEPT !.err = TRUE]
    ELSE LET sub == PostRandMembers(T, w, st, n, 1)
         IN IF sub.err THEN sub
            ELSE SetVal(T, w, sub, n, OrMembers(T, sub.val, n, 1), TRUE)

PostRandMembers(T, w, st, n, i) ==
    IF i > Len(T[n].kids) THEN st
    ELSE LET k == T[n].kids[i]
             one == IF IsComposite(T, k) /\ isRand[k] THEN PostRand(T, w, st, k) ELSE st
         IN IF one.err THEN one ELSE PostRandMembers(T, w, one, n, i + 1)

-----------------------------------------------------------------------------
(* The value tree as a state machine *)

\* how an argument of set_val lies to the width of its node
ArgClass(T, n, x) ==
    IF x < 0 THEN "negative" ELSE IF x >= Pow2(SizeOf(T, n)) THEN "over" ELSE "fits"

NoOp == [op |-> "init", kind |-> "none", arg |-> "none", err |-> FALSE]

TInit ==
    /\ lay \in 1..Len(TreeLayouts)
    /\ val = [n \in Nodes(Tree(lay)) |-> 0]
    /\ isRand = [n \in Nodes(Tree(lay)) |-> TRUE]
    /\ randMode = [n \in Nodes(Tree(lay)) |-> TRUE]
    /\ phase = "idle"
    /\ preDone = FALSE
    /\ lastOp = NoOp
    /\ everRaised = FALSE
    /\ everNeg = FALSE
    /\ leafWraps \in BOOLEAN
    /\ cfg = 1 /\ ncmds = 0 /\ pc = "tree" /\ cmdIdx = 0 /\ active = {}
    /\ cur = <<>> /\ frames = <<>> /\ events = <<>> /\ bin = <<>> /\ test = <<>> /\ heap = <<>>
    /\ dseed = 0 /\ dpat = "none" /\ dsize = 0 /\ run = <<>>
    /\ extr = <<>> /\ enums = <<>> /\ build = <<>>

\* the largest of the small values handed to set_val
MaxIn == 4

\* the values a caller hands to set_val on node n: the small values of the node's
\* width, its largest value, and one value beyond the width on either side
InVals(T, n) ==
    {x \in (-1)..Pow2(SizeOf(T, n)) : x <= MaxIn \/ x >= Pow2(SizeOf(T, n)) - 1}

\* node.set_val(x)
TSetVal ==
    /\ phase = "idle"
    /\ \E n \in Nodes(Tree(lay)) : \E x \in InVals(Tree(lay), n) :
         LET st == SetVal(Tree(lay), leafWraps, Call(val), n, x, FALSE)
         IN /\ val' = st.val
            /\ lastOp' = [op |-> "set_val", kind |-> Tree(lay)[n].kind,
                          arg |-> ArgClass(Tree(lay), n, x), err |-> st.err]
            /\ everRaised' = (everRaised \/ st.err)
            /\ everNeg' = (everNeg \/ x < 0)
    /\ UNCHANGED <<auxVars, dataVars, lay, isRand, randMode, phase, preDone, leafWraps, randVars>>

\* parent.update_from_member(child)
TUpdateFromMember ==
    /\ phase = "idle"
    /\ \E c \in Nodes(Tree(lay)) :
         /\ Tree(lay)[c].parent # 0
         /\ LET st == UpdateFromMember(Tree(lay), leafWraps, Call(val),
                                       Tree(lay)[c].parent, c)
            IN /\ val' = st.val
               /\ lastOp' = [op |-> "update_from_member", kind |-> Tree(lay)[c].kind, arg |-> "none",
                             err |-> st.err]
               /\ everRaised' = (everRaised \/ st.err)
    /\ UNCHANGED <<auxVars, dataVars, lay, isRand, randMode, phase, preDone, everNeg, leafWraps, randVars>>

\* root.pre_rand()
TPreRand ==
    /\ phase = "idle"
    /\ ~preDone
    /\ isRand' = PreRand(Tree(lay), isRand, 1)
    /\ preDone' = TRUE
    /\ lastOp' = [op |-> "pre_rand", kind |-> Tree(lay)[1].kind, arg |-> "none", err |-> FALSE]
    /\ UNCHANGED <<auxVars, dataVars, lay, val, randMode, phase, everRaised, everNeg, leafWraps, randVars>>

RECURSIVE UsedRand(_, _)
\* the solver assigns a leaf when it and every node above it, the root aside,
\* is declared random with rand_mode on
UsedRand(T, n) ==
    IF T[n].parent = 0 THEN TRUE
    ELSE isRand[n] /\ randMode[n] /\ UsedRand(T, T[n].parent)

RandLeaves(T) == {n \in Nodes(T) : T[n].kind = "dtype" /\ UsedRand(T, n)}

\* the node values after the solver has written assignment a of the random leaves
Written(T, a) == [n \in Nodes(T) |-> IF n \in DOMAIN a THEN a[n] ELSE val[n]]

RECURSIVE AssignmentsOf(_, _)
\* every assignment of in-range values to the leaves in R
AssignmentsOf(T, R) ==
    IF R = {} THEN {<<>>}
    ELSE LET n == CHOOSE n \in R : TRUE
             rest == AssignmentsOf(T, R \ {n})
         IN {(n :> x) @@ a : x \in 0..(Pow2(SizeOf(T, n)) - 1), a \in rest}

\* every assignment of in-range values to the random leaves
RandAssignments(T) == AssignmentsOf(T, RandLeaves(T))

\* the solver writes the leaves it owns, without telling their parents
TSolve ==
    /\ phase = "idle"
    /\ preDone
    /\ \E a \in RandAssignments(Tree(lay)) :
         /\ val' = Written(Tree(lay), a)
         /\ lastOp' = [op |-> "solve", kind |-> Tree(lay)[1].kind, arg |-> "none", err |-> FALSE]
    /\ phase' = "solved"
    /\ UNCHANGED <<auxVars, dataVars, lay, isRand, randMode, preDone, everRaised, everNeg, leafWraps, randVars>>

\* root.post_rand()
TPostRand ==
    /\ LET st == PostRand(Tree(lay), leafWraps, Call(val), 1)
       IN /\ val' = st.val
          /\ lastOp' = [op |-> "post_rand", kind |-> Tree(lay)[1].kind, arg |-> "none", err |-> st.err]
          /\ everRaised' = (everRaised \/ st.err)
    /\ phase' = "idle"
    /\ UNCHANGED <<auxVars, dataVars, lay, isRand, randMode, preDone, everNeg, leafWraps, randVars>>

TNext == TSetVal \/ TUpdateFromMember \/ TPreRand \/ TSolve \/ TPostRand

SpecTree == TInit /\ [][TNext]_vars

-----------------------------------------------------------------------------
(* The frame randomization driver: slp_utils.gen_frames, randomize_frames, *)
(* add_cnstr and the packer.                                               *)

FrameT == Tree(FrameLayout)

\* the largest num_cmds of a test
MaxCmds == 3

\* enm.FRAME_SINGLE
FRAME_SINGLE == 0

RECURSIVE Resolve(_, _, _)
\* the node a dotted path names, from node n: self.fields.count is <<"fields", "count">>
Resolve(T, n, path) ==
    IF path = <<>> THEN n
    ELSE Resolve(T, CHOOSE k \in Nodes(T) : T[k].parent = n /\ T[k].name = Head(path),
                 Tail(path))

\* a relational expression over one field, and an implication between two
Rel(path, op, k) == [kind |-> "rel", node |-> Resolve(FrameT, 1, path), op |-> op, k |-> k]

Implies(a, b) == [kind |-> "implies", a |-> a, b |-> b]

HoldsRel(v, e) ==
    CASE e.op = "eq" -> v[e.node] = e.k
      [] e.op = "ne" -> v[e.node] # e.k
      [] e.op = "gt" -> v[e.node] > e.k
      [] e.op = "lt" -> v[e.node] < e.k

\* the value of expression e over the node values v
Holds(v, e) ==
    IF e.kind = "rel" THEN HoldsRel(v, e) ELSE HoldsRel(v, e.a) => HoldsRel(v, e.b)

\* base_constr_frame: every one of them soft
BaseSoft ==
    << Rel(<<"fields", "count">>, "gt", 0),
       Rel(<<"fields", "width">>, "gt", 0),
       Rel(<<"fields", "height">>, "gt", 0),
       Rel(<<"fields", "depth">>, "gt", 0),
       Implies(Rel(<<"fields", "type">>, "eq", FRAME_SINGLE),
               Rel(<<"fields", "count">>, "eq", 1)) >>

\* an entry of constraints_frame or of a per-command block: the root prefix its text
\* uses, and what it says
Entry(prefix, e) == [prefix |-> prefix, e |-> e]

\* a block of per_cmd_constraints_frame written with frame.
Block(es) == [j \in 1..Len(es) |-> Entry("frame.", es[j])]

\* a rnd_cfg: constraints_frame and per_cmd_constraints_frame (enables is empty)
Cfg(g, p) == [glob |-> g, per |-> p]

Configs ==
    << Cfg(<<>>, <<>>),
       Cfg(<<Entry("frame.", Rel(<<"fields", "count">>, "eq", 0))>>, <<>>),
       Cfg(<<Entry("frame.", Rel(<<"fields", "type">>, "eq", FRAME_SINGLE))>>, <<>>),
       Cfg(<<Entry("self.", Rel(<<"fields", "width">>, "eq", 0))>>,
           1 :> <<Entry("self.", Rel(<<"fields", "count">>, "eq", 3))>>),
       Cfg(<<Entry("frame.", Rel(<<"fields", "type">>, "eq", FRAME_SINGLE))>>,
           (0 :> Block(<<Rel(<<"fields", "count">>, "eq", 2)>>))
               @@ (3 :> Block(<<Rel(<<"fields", "width">>, "eq", 0)>>))),
       Cfg(<<>>, 1 :> Block(<<Rel(<<"fields", "id">>, "eq", 1)>>)),
       Cfg(<<Entry("self.", Rel(<<"fields", "width">>, "eq", 0))>>, <<>>) >>

\* "if not cfg": an empty mapping
Falsy(c) == c.glob = <<>> /\ DOMAIN c.per = {}

\* parse_cfg keeping every entry of constraints_frame
UserConstrAll(c) ==
    IF Falsy(c) THEN <<>> ELSE [j \in 1..Len(c.glob) |-> c.glob[j].e]

\* parse_cfg: the entries of constraints_frame whose text holds "frame."
UserConstr(c) ==
    IF Falsy(c) THEN <<>>
    ELSE LET kept == SelectSeq(c.glob, LAMBDA en : en.prefix = "frame.")
         IN [j \in 1..Len(kept) |-> kept[j].e]

\* gen_idx_constr: every entry of the block of index k, "frame." replaced by "self."
IdxConstr(c, k) == [j \in 1..Len(c.per[k]) |-> c.per[k][j].e]

\* add_idx_cnstr: the indexes N for which desc has an attribute constr_idx{N}
Attached(c) == IF Falsy(c) THEN {} ELSE DOMAIN c.per

\* a block, once called, is called for every later index as well
ActiveBlocksSticky(c, i) == {k \in Attached(c) : k <= i}

\* the blocks the with-body of randomize_frames calls for command index i
ActiveBlocks(c, i) == {k \in Attached(c) : k = i}

\* the solver honours the global user constraints only
HardHoldsGlobalOnly(c, act, v) ==
    \A j \in 1..Len(UserConstr(c)) : Holds(v, UserConstr(c)[j])

\* the hard constraints of a solve with the blocks in act enabled
HardHolds(c, act, v) ==
    /\ \A j \in 1..Len(UserConstr(c)) : Holds(v, UserConstr(c)[j])
    /\ \A k \in act : \A j \in 1..Len(IdxConstr(c, k)) : Holds(v, IdxConstr(c, k)[j])

SoftSat(v) == {j \in 1..Len(BaseSoft) : Holds(v, BaseSoft[j])}

\* what the solver may return: the hard constraints hold, and no other such
\* assignment satisfies strictly more of the soft ones
Solutions(T, c, act) ==
    LET hard == {a \in RandAssignments(T) : HardHolds(c, act, Written(T, a))}
        soft == [a \in hard |-> SoftSat(Written(T, a))]
        sets == {soft[a] : a \in hard}
        best == {x \in sets : \A y \in sets : ~(x \subseteq y /\ x # y)}
    IN {a \in hard : soft[a] \in best}

Zero(T) == [n \in Nodes(T) |-> 0]

\* obj.name = x on a vsc object: set_val on the BfDtype member of that name; with no
\* such member, a plain attribute of obj
SetAttr(T, w, fr, n, nm, x) ==
    LET ms == {k \in Nodes(T) : T[k].parent = n /\ T[k].name = nm /\ T[k].kind = "dtype"}
    IN IF ms # {}
       THEN [fr EXCEPT !.val = SetVal(T, w, Call(fr.val), CHOOSE k \in ms : TRUE, x, FALSE).val]
       ELSE [fr EXCEPT !.attrs = Append(@, <<nm, x>>)]

\* lines 31-32 of randomize_frames: the frame as it is yielded
Emitted(T, w, f, v, i) ==
    LET copy == SetVal(T, w, Call(f), 1, v, FALSE)
    IN [st |-> copy,
        fr |-> SetAttr(T, w, [val |-> copy.val, attrs |-> <<>>], 1, "id",
                       LowBits(i, WordBits))]

\* struct.pack(">I", x): the most significant byte first
PackWordBigEndian(x) ==
    [b \in 1..4 |-> LowBits(Shr(x, ByteBits * (4 - b)), ByteBits)]

\* struct.pack("<I", x): four bytes, the least significant first
PackWord(x) ==
    [b \in 1..4 |-> LowBits(Shr(x, ByteBits * (b - 1)), ByteBits)]

RECURSIVE PackWords(_, _, _)
\* the inner loop of gen_bin_yaml_output_frame: for u32 in cmd.data, from the i-th on
PackWords(T, v, i) ==
    LET data == Resolve(T, 1, <<"data">>)
    IN IF i > Len(T[data].kids) THEN <<>>
       ELSE PackWord(v[T[data].kids[i]]) \o PackWords(T, v, i + 1)

RECURSIVE Pack(_, _, _)
\* the outer loop of gen_bin_yaml_output_frame: for cmd in cmds, from the i-th on
Pack(T, fs, i) ==
    IF i > Len(fs) THEN <<>> ELSE PackWords(T, fs[i].val, 1) \o Pack(T, fs, i + 1)

RECURSIVE Digits(_, _)
\* HexInt(x, width = w): the hexadecimal digits of x, most significant first, padded to w
Digits(x, w) ==
    IF x < 16 /\ w <= 1 THEN <<x>> ELSE Append(Digits(x \div 16, w - 1), x % 16)

RECURSIVE ToYaml(_, _, _), ToYamlMembers(_, _, _, _)
\* to_yaml of node n: a struct dumps its members in _offsets order, a union its arms
\* in dir() order, an array its elements, a leaf its value as a HexInt
ToYaml(T, v, n) ==
    CASE T[n].kind = "dtype"  -> << <<T[n].name, Digits(v[n], (T[n].size + 3) \div 4)>> >>
      [] T[n].kind = "union"  -> << <<T[n].name, "map">> >> \o ToYamlMembers(T, v, T[n].dir, 1)
      [] T[n].kind = "struct" -> << <<T[n].name, "map">> >> \o ToYamlMembers(T, v, T[n].kids, 1)
      [] T[n].kind = "array"  -> << <<T[n].name, "list">> >> \o ToYamlMembers(T, v, T[n].kids, 1)

ToYamlMembers(T, v, ks, i) ==
    IF i > Len(ks) THEN <<>> ELSE ToYaml(T, v, ks[i]) \o ToYamlMembers(T, v, ks, i + 1)

RECURSIVE DumpYaml(_, _, _)
\* yaml.dump(cmds, yml_file): the list of the frames, from the i-th on
DumpYaml(T, fs, i) ==
    IF i > Len(fs) THEN <<>> ELSE ToYaml(T, fs[i].val, 1) \o DumpYaml(T, fs, i + 1)

\* add_file_to_yml: the entry of a file in test["files"]
FileEntry(filename) == [filename |-> filename, mode |-> "c", attr |-> "aligned (4)"]

\* test["files"] and test["params"] as process_in_yaml hands them over, no file written
NewTest == [files |-> <<>>, params |-> <<>>, wrote |-> FALSE, yml |-> <<>>]

\* the frame objects: the ids handed out so far, the id of rand_desc, of the frame
\* fetched from composer.gen_frames and of the frames of the list, and the node
\* values of each frame object by id
NoHeap == [next |-> 1, desc |-> 0, cur |-> 0, ids |-> <<>>, objs |-> <<>>]

\* every frame object is still referenced from the generator and the list
NewObjRecycled(h) == IF h.cur # 0 THEN h.cur ELSE h.next

\* get_frame_obj: create_type_instance builds a new object; the objects before it are
\* all still referenced (rand_desc, the listed frames, id2obj), so its id is new
NewObj(h) == h.next

Alloc(h, content) == [h EXCEPT !.next = @ + 1, !.objs = (NewObj(h) :> content) @@ @]

\* list(randomize_frames(...)): the frames as read through the references of the list
Listed(h) == [i \in 1..Len(h.ids) |-> h.objs[h.ids[i]]]

RInit ==
    /\ lay = FrameLayout
    /\ val = Zero(FrameT)
    /\ isRand = [n \in Nodes(FrameT) |-> TRUE]
    /\ randMode = [n \in Nodes(FrameT) |-> TRUE]
    /\ phase = "idle"
    /\ preDone = FALSE
    /\ lastOp = NoOp
    /\ everRaised = FALSE
    /\ everNeg = FALSE
    /\ leafWraps \in BOOLEAN
    /\ cfg \in 1..Len(Configs)
    /\ ncmds \in 0..MaxCmds
    /\ pc = "start"
    /\ cmdIdx = 0
    /\ active = {}
    /\ cur = <<>>
    /\ frames = <<>>
    /\ events = <<>>
    /\ bin = <<>>
    /\ test = NewTest /\ heap = NoHeap
    /\ dseed = 0 /\ dpat = "none" /\ dsize = 0 /\ run = <<>>
    /\ extr = <<>> /\ enums = <<>> /\ build = <<>>

\* slp_utils.gen_frames up to the call of randomize_frames
RStart ==
    /\ pc = "start"
    /\ pc' = IF ncmds = 0 THEN "skipped" ELSE "setup"
    /\ UNCHANGED <<auxVars, dataVars, treeVars, cfg, ncmds, cmdIdx, active, cur, frames, events, bin, test, heap>>

\* randomize_frames before its loop: get_frame_obj, pre_rand, add_cnstr
RSetup ==
    /\ pc = "setup"
    /\ isRand' = PreRand(FrameT, isRand, 1)
    /\ preDone' = TRUE
    /\ randMode' = [randMode EXCEPT ![Resolve(FrameT, 1, <<"fields", "id">>)] = FALSE]
    /\ val' = SetVal(FrameT, leafWraps, Call(val),
                     Resolve(FrameT, 1, <<"fields", "id">>), 0, FALSE).val
    /\ heap' = [heap EXCEPT !.desc = NewObj(heap), !.next = @ + 1]
    /\ pc' = "fetch"
    /\ UNCHANGED <<auxVars, dataVars, lay, phase, lastOp, everRaised, everNeg, leafWraps, cfg, ncmds,
                   cmdIdx, active, cur, frames, events, bin, test>>

\* enumerate(frames): the next frame of composer.gen_frames, or the end of the loop
RFetch ==
    /\ pc = "fetch"
    /\ IF cmdIdx < ncmds
       THEN /\ cur' = Zero(FrameT)
            /\ heap' = [Alloc(heap, Zero(FrameT)) EXCEPT !.cur = NewObj(heap)]
            /\ pc' = "solve"
       ELSE cur' = cur /\ heap' = heap /\ pc' = "pack"
    /\ UNCHANGED <<auxVars, dataVars, treeVars, cfg, ncmds, cmdIdx, active, frames, events, bin, test>>

\* with rand_desc.randomize_with() as it: ...
RSolve ==
    /\ pc = "solve"
    /\ active' = ActiveBlocks(Configs[cfg], cmdIdx)
    /\ events' = Append(events, <<"solve", cmdIdx>>)
    /\ LET sols == Solutions(FrameT, Configs[cfg], ActiveBlocks(Configs[cfg], cmdIdx))
       IN IF sols = {}
          THEN val' = val /\ pc' = "failed"
          ELSE /\ \E a \in sols : val' = Written(FrameT, a)
               /\ pc' = "post"
    /\ UNCHANGED <<auxVars, dataVars, lay, isRand, randMode, phase, preDone, lastOp, everRaised, everNeg,
                   leafWraps, cfg, ncmds, cmdIdx, cur, frames, bin, test, heap>>

\* rand_desc.post_rand()
RPostRand ==
    /\ pc = "post"
    /\ LET st == PostRand(FrameT, leafWraps, Call(val), 1)
       IN /\ val' = st.val
          /\ pc' = IF st.err THEN "failed" ELSE "emit"
    /\ events' = Append(events, <<"post_rand", cmdIdx>>)
    /\ UNCHANGED <<auxVars, dataVars, lay, isRand, randMode, phase, preDone, lastOp, everRaised, everNeg,
                   leafWraps, cfg, ncmds, cmdIdx, active, cur, frames, bin, test, heap>>

\* the frame is copied and yielded before post_rand has run
REmitBeforePostRand ==
    /\ pc \in {"post", "emit"}
    /\ frames' = Append(frames, Emitted(FrameT, leafWraps, cur, val[1], cmdIdx).fr)
    /\ heap' = [heap EXCEPT !.objs[heap.cur] = Emitted(FrameT, leafWraps, cur, val[1], cmdIdx).fr,
                            !.ids = Append(@, heap.cur)]
    /\ events' = Append(events, <<"yield", cmdIdx>>)
    /\ cmdIdx' = cmdIdx + 1
    /\ pc' = "fetch"
    /\ UNCHANGED <<auxVars, dataVars, treeVars, cfg, ncmds, active, cur, bin, test>>

\* frame.set_val(rand_desc.get_val()); frame.id = cmd_idx & 0xFFFF_FFFF; yield frame
REmit ==
    /\ pc = "emit"
    /\ LET em == Emitted(FrameT, leafWraps, cur, val[1], cmdIdx)
       IN IF em.st.err
          THEN pc' = "failed" /\ UNCHANGED <<frames, events, cmdIdx, heap>>
          ELSE /\ frames' = Append(frames, em.fr)
               /\ heap' = [heap EXCEPT !.objs[heap.cur] = em.fr, !.ids = Append(@, heap.cur)]
               /\ events' = Append(events, <<"yield", cmdIdx>>)
               /\ cmdIdx' = cmdIdx + 1
               /\ pc' = "fetch"
    /\ UNCHANGED <<auxVars, dataVars, treeVars, cfg, ncmds, active, cur, bin, test>>

\* gen_frames after the frames are listed: gen_bin_yaml_output_frame, add_file_to_yml,
\* add_file_to_params and params["num_frames"]
RPack ==
    /\ pc = "pack"
    /\ bin' = Pack(FrameT, Listed(heap), 1)
    /\ test' = [files  |-> Append(test.files, FileEntry("frames.bin")),
                params |-> ("num_frames" :> ncmds) @@ ("file_frames" :> "frames.bin")
                               @@ test.params,
                wrote  |-> TRUE,
                yml    |-> DumpYaml(FrameT, Listed(heap), 1)]
    /\ pc' = "done"
    /\ UNCHANGED <<auxVars, dataVars, treeVars, cfg, ncmds, cmdIdx, active, cur, frames, events, heap>>

RNext == RStart \/ RSetup \/ RFetch \/ RSolve \/ RPostRand \/ REmit \/ RPack

SpecRand == RInit /\ [][RNext]_vars

-----------------------------------------------------------------------------
(* Two runs of the generator on the same input YAML and ELF: the seeding   *)
(* of process_in_yaml, the frame phase of gen_frames and the data phase of *)
(* gen_data.  Python's global random stream is a state g; its generator is *)
(* modelled by a linear congruential step over one word.                   *)

\* the largest value of a byte os.urandom is taken to return
MaxByte == 1

\* CHUNK_SIZE, in bytes of the scaled word
CHUNK_SIZE == 2

\* STD_OFFSET, in the scaled word
STD_OFFSET == 202

\* the state of the global stream of an interpreter that has not been seeded
Unseeded == {0, 1}

\* the stream is left as the interpreter started it
NotSeeded(g, s) == g

\* random.seed(s): the stream restarts from a state the seed alone decides
Seeded(g, s) == (7 * s + 3) % Pow2(WordBits)

\* random.getrandbits(32) in state g, and the state it leaves
RandBits(g) == g

Advance(g) == (5 * g + 1) % Pow2(WordBits)

\* the seeds of the input YAML
Seeds == {0, 1}

\* data_pattern and data_file_size of the test
DataCfgs ==
    { [pat |-> "INCR_STD", size |-> 8],
      [pat |-> "DECR_STD", size |-> 9],
      [pat |-> "INCR_RND", size |-> 8],
      [pat |-> "INCR_RND", size |-> 0],
      [pat |-> "DECR_RND", size |-> 5],
      [pat |-> "ALL_RND",  size |-> 3],
      [pat |-> "CUSTOM",   size |-> 8] }

\* the bytes of the custom_data_file of the configurations that name one
CustomFile == <<1, 0, 1>>

\* the rnd_cfg of the test in the two-run comparison
RunCfgs == {1, 4}

\* the solver's pick among its solutions, decided by the value d it drew from the stream
Pick(T, w, sols, d) ==
    LET keyed == {<<PostRand(T, w, Call(Written(T, a)), 1).val[1], a>> : a \in sols}
        keys  == {p[1] : p \in keyed}
        k     == CHOOSE x \in keys : Cardinality({y \in keys : y < x}) = d % Cardinality(keys)
    IN (CHOOSE p \in keyed : p[1] = k)[2]

\* one iteration of the loop of randomize_frames for command index i, the solver
\* having drawn d: the frame yielded
FrameOfDraw(T, w, c, i, d) ==
    LET a  == Pick(T, w, Solutions(T, c, ActiveBlocks(c, i)), d)
        st == PostRand(T, w, Call(Written(T, a)), 1)
    IN Emitted(T, w, Zero(T), st.val[1], i).fr

RECURSIVE Counting(_, _, _, _)
\* for x in range(num_bytes // 4): struct.pack("<I", (offset + incr * x) & 0xFFFF_FFFF)
Counting(offset, incr, n, x) ==
    IF x >= n THEN <<>>
    ELSE PackWord(LowBits(offset + incr * x, WordBits)) \o Counting(offset, incr, n, x + 1)

\* the chunks os.urandom may return for a file of n bytes: num_bytes // CHUNK_SIZE
\* full chunks and one of num_bytes % CHUNK_SIZE bytes
Urandom(n) ==
    [1..((n \div CHUNK_SIZE) * CHUNK_SIZE + (n % CHUNK_SIZE)) -> 0..MaxByte]

NewRun(g) ==
    [pc |-> "seed", rng0 |-> g, rng |-> g, frames |-> <<>>, fbin |-> <<>>,
     text |-> <<>>, dbin |-> <<>>, size_data |-> 0]

DInit ==
    /\ lay = FrameLayout
    /\ val = Zero(FrameT)
    /\ isRand = PreRand(FrameT, [n \in Nodes(FrameT) |-> TRUE], 1)
    /\ randMode = [n \in Nodes(FrameT) |-> n # Resolve(FrameT, 1, <<"fields", "id">>)]
    /\ phase = "idle"
    /\ preDone = TRUE
    /\ lastOp = NoOp
    /\ everRaised = FALSE
    /\ everNeg = FALSE
    /\ leafWraps \in BOOLEAN
    /\ cfg \in RunCfgs
    /\ ncmds \in 0..MaxCmds
    /\ pc = "runs"
    /\ cmdIdx = 0
    /\ active = {}
    /\ cur = <<>>
    /\ frames = <<>>
    /\ events = <<>>
    /\ bin = <<>>
    /\ test = NewTest /\ heap = NoHeap
    /\ dseed \in Seeds
    /\ \E d \in DataCfgs : dpat = d.pat /\ dsize = d.size
    /\ run \in [1..2 -> {NewRun(g) : g \in Unseeded}]
    /\ extr = <<>> /\ enums = <<>> /\ build = <<>>

\* the second run starts when the first has ended
Turn(r) == r = 1 \/ run[1].pc = "done"

\* process_in_yaml: random.seed(suite["seed"])
DSeed(r) ==
    /\ Turn(r) /\ run[r].pc = "seed"
    /\ run' = [run EXCEPT ![r].rng = Seeded(@, dseed), ![r].pc = "frames"]
    /\ UNCHANGED <<auxVars, treeVars, randVars, dseed, dpat, dsize>>

\* gen_frames: one iteration of randomize_frames, the frame appended to the list
DFrame(r) ==
    /\ Turn(r) /\ run[r].pc = "frames"
    /\ Len(run[r].frames) < ncmds
    /\ run' = [run EXCEPT
                 ![r].frames = Append(@, FrameOfDraw(FrameT, leafWraps, Configs[cfg],
                                                     Len(run[r].frames),
                                                     RandBits(run[r].rng))),
                 ![r].rng = Advance(@)]
    /\ UNCHANGED <<auxVars, treeVars, randVars, dseed, dpat, dsize>>

\* gen_frames: gen_bin_yaml_output_frame once the frames are exhausted (nothing is
\* written when num_cmds is 0)
DPack(r) ==
    /\ Turn(r) /\ run[r].pc = "frames"
    /\ Len(run[r].frames) = ncmds
    /\ run' = [run EXCEPT ![r].fbin = Pack(FrameT, run[r].frames, 1),
                          ![r].text = DumpYaml(FrameT, run[r].frames, 1),
                          ![r].pc = "data"]
    /\ UNCHANGED <<auxVars, treeVars, randVars, dseed, dpat, dsize>>

\* randomize_data with a custom file: the file is copied and its size returned
DCustom(r) ==
    /\ Turn(r) /\ run[r].pc = "data"
    /\ dpat = "CUSTOM"
    /\ run' = [run EXCEPT ![r].dbin = CustomFile, ![r].size_data = Len(CustomFile),
                          ![r].pc = "done"]
    /\ UNCHANGED <<auxVars, treeVars, randVars, dseed, dpat, dsize>>

\* randomize_data with pattern ALL_RND
DAllRnd(r) ==
    /\ Turn(r) /\ run[r].pc = "data"
    /\ dpat = "ALL_RND"
    /\ \E bytes \in Urandom(dsize) :
         run' = [run EXCEPT ![r].dbin = bytes, ![r].size_data = dsize, ![r].pc = "done"]
    /\ UNCHANGED <<auxVars, treeVars, randVars, dseed, dpat, dsize>>

\* randomize_data with a counting pattern
DCounting(r) ==
    /\ Turn(r) /\ run[r].pc = "data"
    /\ dpat \notin {"ALL_RND", "CUSTOM"}
    /\ LET incr   == IF dpat \in {"DECR_STD", "DECR_RND"} THEN -1 ELSE 1
           offset == IF dpat \in {"INCR_STD", "DECR_STD"} THEN STD_OFFSET
                     ELSE RandBits(run[r].rng)
       IN run' = [run EXCEPT ![r].dbin = Counting(offset, incr, dsize \div 4, 0),
                             ![r].rng = Advance(@),
                             ![r].size_data = dsize,
                             ![r].pc = "done"]
    /\ UNCHANGED <<auxVars, treeVars, randVars, dseed, dpat, dsize>>

DNext ==
    \E r \in 1..2 : DSeed(r) \/ DFrame(r) \/ DPack(r) \/ DCustom(r) \/ DAllRnd(r) \/ DCounting(r)

SpecData == DInit /\ [][DNext]_vars

-----------------------------------------------------------------------------
(* The DWARF extractor (slp_extract_dwarf.py).  A DIE is named by a key,   *)
(* which stands for its offset; an ELF is the DIEs by key and the keys in  *)
(* the order of their offsets, which is the order iter_DIEs visits them.   *)
(* The 64 bits of a DWARF attribute are scaled to WordBits.                *)

\* an attribute the DIE does not carry / Python's None
Absent == 0 - 1

\* the largest DW_AT_bit_size of a bit-field member of the ELFs
MaxBits == 10

\* 0xFFFFFFFFFFFFFFFF, the sentinel DW_AT_upper_bound
SENTINEL == Pow2(WordBits) - 1

OFFSET_NEG_MASK == Pow2(WordBits - 1)

OFFSET_NEG_SUB == Pow2(WordBits)

Die(tag, name, type, kids) ==
    [tag |-> tag, name |-> name, type |-> type, kids |-> kids, byte_size |-> Absent,
     bit_size |-> Absent, bit_offset |-> Absent, loc |-> 0, ub |-> Absent, cnt |-> Absent,
     const_value |-> Absent]

BaseDie(name, bytes) == [Die("DW_TAG_base_type", name, "", <<>>) EXCEPT !.byte_size = bytes]

StructDie(name, bytes, kids) ==
    [Die("DW_TAG_structure_type", name, "", kids) EXCEPT !.byte_size = bytes]

UnionDie(name, kids) == Die("DW_TAG_union_type", name, "", kids)

TypedefDie(name, type) == Die("DW_TAG_typedef", name, type, <<>>)

MemberDie(name, type, loc) == [Die("DW_TAG_member", name, type, <<>>) EXCEPT !.loc = loc]

BitMemberDie(name, type, loc, size, off) ==
    [Die("DW_TAG_member", name, type, <<>>)
        EXCEPT !.loc = loc, !.bit_size = size, !.bit_offset = off]

ArrayDie(type, kids) == Die("DW_TAG_array_type", "", type, kids)

BoundDie(ub) == [Die("DW_TAG_subrange_type", "", "", <<>>) EXCEPT !.ub = ub]

EnumDie(name, kids) == Die("DW_TAG_enumeration_type", name, "", kids)

EnumeratorDie(name, v) == [Die("DW_TAG_enumerator", name, "", <<>>) EXCEPT !.const_value = v]

CountDie(n) == [Die("DW_TAG_subrange_type", "", "", <<>>) EXCEPT !.cnt = n]

Elf(dies, order) == [dies |-> dies, order |-> order]

\* struct Outer { struct Inner in; } with struct Inner { u8 x; }, typedef Outer Outer_t;
\* Inner laid out before Outer or after it
ElfNest(innerFirst) ==
    Elf("u8" :> BaseDie("unsigned char", 1)
          @@ "Inner" :> StructDie("Inner", 1, <<"Inner.x">>)
          @@ "Inner.x" :> MemberDie("x", "u8", 0)
          @@ "Outer" :> StructDie("Outer", 1, <<"Outer.in">>)
          @@ "Outer.in" :> MemberDie("in", "Inner", 0)
          @@ "Outer_t" :> TypedefDie("Outer_t", "Outer"),
        IF innerFirst
        THEN <<"u8", "Inner", "Inner.x", "Outer", "Outer.in", "Outer_t">>
        ELSE <<"u8", "Outer", "Outer.in", "Outer_t", "Inner", "Inner.x">>)

\* struct Holder { union Pair p; } with union Pair { struct Lo lo; u8 raw; }
ElfUnion(pairFirst) ==
    Elf("u8" :> BaseDie("unsigned char", 1)
          @@ "Lo" :> StructDie("Lo", 1, <<"Lo.v">>)
          @@ "Lo.v" :> MemberDie("v", "u8", 0)
          @@ "Pair" :> UnionDie("Pair", <<"Pair.lo", "Pair.raw">>)
          @@ "Pair.lo" :> MemberDie("lo", "Lo", 0)
          @@ "Pair.raw" :> MemberDie("raw", "u8", 0)
          @@ "Holder" :> StructDie("Holder", 1, <<"Holder.p">>)
          @@ "Holder.p" :> MemberDie("p", "Pair", 0),
        IF pairFirst
        THEN <<"u8", "Lo", "Lo.v", "Pair", "Pair.lo", "Pair.raw", "Holder", "Holder.p">>
        ELSE <<"u8", "Lo", "Lo.v", "Holder", "Holder.p", "Pair", "Pair.lo", "Pair.raw">>)

\* typedef struct { u8 x; } Anon_t; the typedef after the struct or before it
ElfAnon(structFirst) ==
    Elf("u8" :> BaseDie("unsigned char", 1)
          @@ "s" :> StructDie("", 1, <<"s.x">>)
          @@ "s.x" :> MemberDie("x", "u8", 0)
          @@ "Anon_t" :> TypedefDie("Anon_t", "s"),
        IF structFirst THEN <<"u8", "s", "s.x", "Anon_t">> ELSE <<"u8", "Anon_t", "s", "s.x">>)

\* struct Bits { uN f : size; } with uN of the given bytes, at DW_AT_bit_offset off
ElfBits(bytes, size, off) ==
    Elf("uN" :> BaseDie("unsigned", bytes)
          @@ "Bits" :> StructDie("Bits", bytes, <<"Bits.f">>)
          @@ "Bits.f" :> BitMemberDie("f", "uN", 0, size, off),
        <<"uN", "Bits", "Bits.f">>)

\* struct Two { u8 pad; uN f : 2; } with f in the container at byte loc, at
\* DW_AT_bit_offset off
ElfBitsAt(bytes, loc, off) ==
    Elf("u8" :> BaseDie("unsigned char", 1)
          @@ "uN" :> BaseDie("unsigned", bytes)
          @@ "Two" :> StructDie("Two", loc + bytes, <<"Two.pad", "Two.f">>)
          @@ "Two.pad" :> MemberDie("pad", "u8", 0)
          @@ "Two.f" :> BitMemberDie("f", "uN", loc, 2, off),
        <<"u8", "uN", "Two", "Two.pad", "Two.f">>)

\* struct Vec { u8 a[...]; } with one subrange DIE
ElfArray(bound) ==
    Elf("u8" :> BaseDie("unsigned char", 1)
          @@ "Vec" :> StructDie("Vec", 2, <<"Vec.a">>)
          @@ "Vec.a" :> MemberDie("a", "arr", 0)
          @@ "arr" :> ArrayDie("u8", <<"arr.n">>)
          @@ "arr.n" :> bound,
        <<"u8", "Vec", "Vec.a", "arr", "arr.n">>)

\* enum Kind { FRAME_SINGLE = 0, FRAME_MULTI = 1 }; typedef enum { OFF = 0, ON = 1 } Sw_t;
\* enum Mode { ON = 2 }
ElfEnums ==
    Elf("Kind" :> EnumDie("Kind", <<"Kind.0", "Kind.1">>)
          @@ "Kind.0" :> EnumeratorDie("FRAME_SINGLE", 0)
          @@ "Kind.1" :> EnumeratorDie("FRAME_MULTI", 1)
          @@ "sw" :> EnumDie("", <<"sw.0", "sw.1">>)
          @@ "sw.0" :> EnumeratorDie("OFF", 0)
          @@ "sw.1" :> EnumeratorDie("ON", 1)
          @@ "Sw_t" :> TypedefDie("Sw_t", "sw")
          @@ "Mode" :> EnumDie("Mode", <<"Mode.0">>)
          @@ "Mode.0" :> EnumeratorDie("ON", 2),
        <<"Kind", "Kind.0", "Kind.1", "sw", "sw.0", "sw.1", "Sw_t", "Mode", "Mode.0">>)

\* struct Node { u8 v; struct Node *next; }; typedef struct Node Node_t;
ElfPointer ==
    Elf("u8" :> BaseDie("unsigned char", 1)
          @@ "ptr" :> Die("DW_TAG_pointer_type", "", "Node", <<>>)
          @@ "Node" :> StructDie("Node", 9, <<"Node.v", "Node.next">>)
          @@ "Node.v" :> MemberDie("v", "u8", 0)
          @@ "Node.next" :> MemberDie("next", "ptr", 1)
          @@ "Node_t" :> TypedefDie("Node_t", "Node"),
        <<"u8", "ptr", "Node", "Node.v", "Node.next", "Node_t">>)

\* struct Node { struct Node *next; } and struct Ro with a member of a second type the
\* extractor has no case for (a pointer again, or a const type), a typedef of Node,
\* and struct After { u8 x; } behind them
ElfTwoTags(tag) ==
    Elf("u8" :> BaseDie("unsigned char", 1)
          @@ "ptr" :> Die("DW_TAG_pointer_type", "", "Node", <<>>)
          @@ "Node" :> StructDie("Node", 8, <<"Node.next">>)
          @@ "Node.next" :> MemberDie("next", "ptr", 0)
          @@ "cu8" :> Die(tag, "", "u8", <<>>)
          @@ "Ro" :> StructDie("Ro", 2, <<"Ro.v", "Ro.c">>)
          @@ "Ro.v" :> MemberDie("v", "u8", 0)
          @@ "Ro.c" :> MemberDie("c", "cu8", 1)
          @@ "Node_t" :> TypedefDie("Node_t", "Node")
          @@ "After" :> StructDie("After", 1, <<"After.x">>)
          @@ "After.x" :> MemberDie("x", "u8", 0),
        <<"u8", "ptr", "Node", "Node.next", "cu8", "Ro", "Ro.v", "Ro.c", "Node_t",
          "After", "After.x">>)

\* the ELFs handed to parse_dwarf_from_elf
Elfs ==
    {ElfNest(b) : b \in BOOLEAN} \cup {ElfUnion(b) : b \in BOOLEAN}
        \cup {ElfAnon(b) : b \in BOOLEAN}
        \cup {ElfBits(1, size, 0) : size \in 1..MaxBits}
        \cup {ElfBits(2, size, 0) : size \in {16, 17}}
        \cup {ElfBits(1, 2, off) : off \in {6, Pow2(WordBits) - 2}}
        \cup {ElfBitsAt(bytes, 1, off) : bytes \in {1, 2}, off \in {3, Pow2(WordBits) - 3}}
        \cup {ElfArray(BoundDie(ub)) : ub \in {0, 1, SENTINEL}}
        \cup {ElfArray(CountDie(n)) : n \in {0, 2}}
        \cup {ElfEnums, ElfPointer}
        \cup {ElfTwoTags(tag) : tag \in {"DW_TAG_pointer_type", "DW_TAG_const_type"}}

\* what the extractor returns for a type: ctypes.c_uintN (c_int32 when signed), a
\* dc.Struct, a dc.Union, a Python list [elem] * n
CBase(bytes, signed) == [k |-> "base", bytes |-> bytes, signed |-> signed]

CList(elem, n) == [k |-> "list", elem |-> elem, n |-> n]

DStruct(size, members) == [k |-> "struct", size |-> size, members |-> members]

DUnion(arms) == [k |-> "union", arms |-> arms]

BitField(name, type, size, off) ==
    [name |-> name, type |-> type, size |-> size, bit_offset |-> off]

Nil == [k |-> "none"]

\* the module globals extracted_dies and already_extracted_size, and the exception
\* in flight ("" when none)
NoCaches == [types |-> <<>>, enumvals |-> <<>>, sizes |-> <<>>, err |-> "", arg |-> ""]

Raise(st, e) == [st EXCEPT !.err = e]

Ret(st, ret) == [st |-> st, ret |-> ret]

get_anon_name(k) == "anon_" \o k

\* get_die_name when the DIE has a name, get_anon_name otherwise
NameOf(E, k) == IF E.dies[k].name # "" THEN E.dies[k].name ELSE get_anon_name(k)

\* base_types
base_types(bytes) ==
    CASE bytes \in {1, 2, 4, 8} -> CBase(bytes, FALSE)
      [] bytes = 16 -> CList(CBase(8, FALSE), 2)

RECURSIVE extract_type_size(_, _, _)
extract_type_size(E, st, k) ==
    IF k \in DOMAIN st.sizes THEN Ret(st, st.sizes[k])
    ELSE LET die == E.dies[k]
             r == IF die.tag = "DW_TAG_typedef"
                  THEN IF die.type = "" THEN Ret(Raise(st, "KeyError"), Absent)
                       ELSE extract_type_size(E, st, die.type)
                  ELSE IF die.tag = "DW_TAG_structure_type" /\ die.byte_size # Absent
                  THEN Ret(st, 8 * die.byte_size)
                  ELSE Ret(st, Absent)
         IN IF r.st.err # "" THEN r
            ELSE Ret([r.st EXCEPT !.sizes = (k :> r.ret) @@ @], r.ret)

\* ctypes.sizeof of an extracted type: defined for the ctypes integers only
Sizeof(d) == IF d.k = "base" THEN d.bytes ELSE Absent

RECURSIVE Repeat(_, _)
\* for dim in member_count[::-1]: ret = [ret] * dim
Repeat(ret, counts) ==
    IF counts = <<>> THEN ret
    ELSE Repeat(CList(ret, counts[Len(counts)]), SubSeq(counts, 1, Len(counts) - 1))

RECURSIVE MemberCount(_, _, _)
\* the loop of extract_array over the subrange children, from the i-th on
MemberCount(E, kids, i) ==
    IF i > Len(kids) THEN <<>>
    ELSE LET c == E.dies[kids[i]]
             rest == MemberCount(E, kids, i + 1)
         IN IF c.tag # "DW_TAG_subrange_type" THEN rest
            ELSE IF c.ub # Absent
            THEN <<(IF c.ub = SENTINEL THEN 0 ELSE c.ub) + 1>> \o rest
            ELSE IF c.cnt # Absent THEN <<c.cnt>> \o rest
            ELSE rest

RECURSIVE extract_type(_, _, _), StructMembers(_, _, _, _, _), UnionMembers(_, _, _, _, _)
extract_type(E, st, k) ==
    IF k \in DOMAIN st.types THEN Ret(st, st.types[k])
    ELSE LET die == E.dies[k]
             r == CASE die.tag = "DW_TAG_typedef" ->
                         IF die.type = "" THEN Ret(Raise(st, "KeyError"), Nil)
                         ELSE extract_type(E, st, die.type)
                    [] die.tag = "DW_TAG_structure_type" ->
                         \* extract_structure
                         LET sz == extract_type_size(E, st, k)
                             ms == StructMembers(E, sz.st, die.kids, 1, <<>>)
                         IN Ret(ms.st, DStruct(sz.ret, ms.ret))
                    [] die.tag = "DW_TAG_base_type" ->
                         \* extract_base_type
                         IF die.byte_size \in {1, 2, 4, 8, 16}
                         THEN Ret(st, base_types(die.byte_size))
                         ELSE Ret(Raise(st, "KeyError"), Nil)
                    [] die.tag = "DW_TAG_array_type" ->
                         \* extract_array
                         LET el == extract_type(E, st, die.type)
                         IN IF el.st.err # "" THEN el
                            ELSE Ret(el.st, Repeat(el.ret, MemberCount(E, die.kids, 1)))
                    [] die.tag = "DW_TAG_enumeration_type" ->
                         \* extract_enum_type
                         IF die.type = "" THEN Ret(st, CBase(4, TRUE))
                         ELSE extract_type(E, st, die.type)
                    [] die.tag = "DW_TAG_union_type" ->
                         \* extract_union
                         UnionMembers(E, st, die.kids, 1, <<>>)
                    [] OTHER -> Ret([st EXCEPT !.err = "UnsupportedDieTagException", !.arg = die.tag], Nil)
         IN IF r.st.err # "" THEN Ret(r.st, Nil)
            ELSE Ret([r.st EXCEPT !.types = (k :> r.ret) @@ @], r.ret)

\* DW_AT_bit_offset taken as it is stored
SignedBitOffsetRaw(die_bit_offset) == die_bit_offset

\* if die_bit_offset & OFFSET_NEG_MASK: die_bit_offset -= OFFSET_NEG_SUB
SignedBitOffset(die_bit_offset) ==
    IF (die_bit_offset \div OFFSET_NEG_MASK) % 2 = 1
    THEN die_bit_offset - OFFSET_NEG_SUB ELSE die_bit_offset

\* the member loop of extract_structure, from the i-th child on; ms: ret.members so far
StructMembers(E, st, kids, i, ms) ==
    IF i > Len(kids) \/ st.err # "" THEN Ret(st, ms)
    ELSE LET m == E.dies[kids[i]]
         IN IF m.tag # "DW_TAG_member" THEN StructMembers(E, st, kids, i + 1, ms)
            ELSE LET member_name == NameOf(E, kids[i])
                     t  == extract_type(E, st, m.type)
                     sz == extract_type_size(E, t.st, m.type)
                     member_type_size == sz.ret
                     container_size == 8 * Sizeof(t.ret)
                     field_size == m.bit_size
                     die_bit_offset == SignedBitOffset(m.bit_offset)
                     field_offset_le ==
                         container_size - field_size - die_bit_offset + 8 * m.loc
                 IN IF t.st.err # "" THEN Ret(t.st, ms)
                    ELSE IF sz.st.err # "" THEN Ret(sz.st, ms)
                    ELSE IF m.bit_size = Absent
                    THEN StructMembers(E, sz.st, kids, i + 1,
                             Append(ms, BitField(member_name, t.ret, member_type_size,
                                                 8 * m.loc)))
                    ELSE IF Sizeof(t.ret) = Absent THEN Ret(Raise(sz.st, "TypeError"), ms)
                    ELSE IF m.bit_offset = Absent THEN Ret(Raise(sz.st, "KeyError"), ms)
                    ELSE IF ~(member_type_size = Absent \/ field_size <= member_type_size)
                    THEN Ret(Raise(sz.st, "AssertionError"), ms)
                    ELSE StructMembers(E, sz.st, kids, i + 1,
                             Append(ms, BitField(member_name, t.ret, field_size,
                                                 field_offset_le)))

\* the member loop of extract_union, from the i-th child on; arms: the dc.Union so far
UnionMembers(E, st, kids, i, arms) ==
    IF i > Len(kids) \/ st.err # "" THEN Ret(st, DUnion(arms))
    ELSE LET m == E.dies[kids[i]]
         IN IF m.tag # "DW_TAG_member" THEN UnionMembers(E, st, kids, i + 1, arms)
            ELSE LET t == extract_type(E, st, m.type)
                 IN IF t.st.err # "" THEN Ret(t.st, Nil)
                    ELSE UnionMembers(E, t.st, kids, i + 1,
                                      Append(arms, [name |-> NameOf(E, kids[i]),
                                                    type |-> t.ret]))

RECURSIVE EnumValues(_, _, _)
\* the enumerator loop of extract_enum_values: name -> DW_AT_const_value
EnumValues(E, kids, i) ==
    IF i > Len(kids) THEN <<>>
    ELSE LET c == E.dies[kids[i]]
         IN IF c.tag # "DW_TAG_enumerator" THEN EnumValues(E, kids, i + 1)
            ELSE EnumValues(E, kids, i + 1) @@ (c.name :> c.const_value)

extract_enum_values(E, st, k) ==
    IF k \in DOMAIN st.enumvals THEN Ret(st, st.enumvals[k])
    ELSE LET ret == EnumValues(E, E.dies[k].kids, 1)
         IN Ret([st EXCEPT !.enumvals = (k :> ret) @@ @], ret)

\* a Python dict as the sequence of its items in insertion order
DictHas(d, key) == \E i \in 1..Len(d) : d[i].key = key

DictGet(d, key) == d[CHOOSE i \in 1..Len(d) : d[i].key = key].val

\* d[key] = v: in place when the key is there, at the end otherwise
DictSet(d, key, v) ==
    IF DictHas(d, key)
    THEN [i \in 1..Len(d) |-> IF d[i].key = key THEN [key |-> key, val |-> v] ELSE d[i]]
    ELSE Append(d, [key |-> key, val |-> v])

\* d.pop(key)
DictPop(d, key) == SelectSeq(d, LAMBDA it : it.key # key)

\* the first parse_dwarf_from_elf of the process: the caches are as the import of
\* slp_extract_dwarf left them, and process_file_with_pattern starts
NewParse(E) ==
    [elf |-> E, pos |-> 1, types |-> <<>>, enums |-> <<>>, st |-> NoCaches,
     warned |-> <<>>, phase |-> "parsing", calls |-> 1]

\* the most parse_dwarf_from_elf calls of one process
MaxParses == 2

\* a parse that starts on the caches the parse before it left
KeepCaches(st) == [st EXCEPT !.err = "", !.arg = ""]

\* extract_dwarf.extracted_dies = {"types": {}, "enums": {}};
\* extract_dwarf.already_extracted_size = {}
ClearCaches(st) == NoCaches

\* parse_dwarf_from_elf(elf_path) after the call that ended in the state x
parse_dwarf_from_elf(x, E) ==
    [NewParse(E) EXCEPT !.st = ClearCaches(x.st), !.calls = x.calls + 1]

\* a warning is printed at every unsupported DIE
WarnEveryTime(warned, unsupported_tag) == Append(warned, unsupported_tag)

\* if unsupported_tag not in warned_unsupported_die_types: append it and print the warning
WarnOnce(warned, unsupported_tag) ==
    IF \E i \in 1..Len(warned) : warned[i] = unsupported_tag THEN warned
    ELSE Append(warned, unsupported_tag)

\* _extract_die for the DIE k under the name extracted_name
ExtractDie(E, x, k, extracted_name) ==
    LET isTypedef == E.dies[k].tag = "DW_TAG_typedef"
        t    == IF isTypedef THEN E.dies[k].type ELSE k
        anon == get_anon_name(t)
        isEnum == E.dies[t].tag = "DW_TAG_enumeration_type"
        cache == IF isEnum THEN x.st.enumvals ELSE x.st.types
        r == IF isEnum THEN extract_enum_values(E, x.st, t) ELSE extract_type(E, x.st, t)
        Named(y, v) ==
            IF isEnum THEN [y EXCEPT !.enums = DictSet(@, extracted_name, v)]
            ELSE [y EXCEPT !.types = DictSet(@, extracted_name, v)]
        WithParent(st, v) ==
            IF ~isTypedef THEN st
            ELSE IF isEnum THEN [st EXCEPT !.enumvals = (k :> v) @@ @]
            ELSE [st EXCEPT !.types = (k :> v) @@ @]
    IN IF isTypedef /\ E.dies[k].type = "" THEN x
       ELSE IF isTypedef /\ DictHas(x.types, anon)
       THEN [x EXCEPT !.types = DictSet(DictPop(@, anon), extracted_name,
                                        DictGet(x.types, anon))]
       ELSE IF isTypedef /\ DictHas(x.enums, anon)
       THEN [x EXCEPT !.enums = DictSet(DictPop(@, anon), extracted_name,
                                        DictGet(x.enums, anon))]
       ELSE IF t \in DOMAIN cache
       THEN IF isTypedef
            THEN Named([x EXCEPT !.st = WithParent(@, cache[t])], cache[t])
            ELSE x
       ELSE IF r.st.err = ""
       THEN Named([x EXCEPT !.st = WithParent(r.st, r.ret)], r.ret)
       ELSE IF r.st.err = "UnsupportedDieTagException"
       THEN [x EXCEPT !.st = Raise(r.st, ""), !.warned = WarnOnce(@, r.st.arg)]
       ELSE [x EXCEPT !.st = r.st, !.phase = "failed"]

supported_types ==
    {"DW_TAG_typedef", "DW_TAG_structure_type", "DW_TAG_union_type",
     "DW_TAG_enumeration_type"}

EInit ==
    /\ lay = 1 /\ val = <<>> /\ isRand = <<>> /\ randMode = <<>>
    /\ phase = "idle" /\ preDone = FALSE /\ lastOp = NoOp
    /\ everRaised = FALSE /\ everNeg = FALSE /\ leafWraps = TRUE
    /\ cfg = 1 /\ ncmds = 0 /\ pc = "extract" /\ cmdIdx = 0 /\ active = {}
    /\ cur = <<>> /\ frames = <<>> /\ events = <<>> /\ bin = <<>> /\ test = <<>> /\ heap = <<>>
    /\ dseed = 0 /\ dpat = "none" /\ dsize = 0 /\ run = <<>>
    /\ enums = <<>> /\ build = <<>>
    /\ extr \in {NewParse(E) : E \in Elfs}

\* one turn of the loop over cu.iter_DIEs(): the DIE is passed over or handed to
\* _extract_die under its own name or its anon name
Visit(x) ==
    LET k == x.elf.order[x.pos]
        y == [x EXCEPT !.pos = @ + 1]
    IN IF x.elf.dies[k].tag \notin supported_types THEN y
       ELSE ExtractDie(x.elf, y, k, NameOf(x.elf, k))

RECURSIVE Extracted(_)
\* process_file_with_pattern from the state x to its end
Extracted(x) ==
    IF x.phase # "parsing" THEN x
    ELSE IF x.pos > Len(x.elf.order) THEN [x EXCEPT !.phase = "done"]
    ELSE CHOOSE end \in {Extracted(y) : y \in {Visit(x)}} : TRUE

EVisit ==
    /\ extr.phase = "parsing"
    /\ extr.pos <= Len(extr.elf.order)
    /\ extr' = Visit(extr)
    /\ UNCHANGED <<treeVars, randVars, dataVars, enums, build>>

\* return extracted
EReturn ==
    /\ extr.phase = "parsing"
    /\ extr.pos > Len(extr.elf.order)
    /\ extr' = [extr EXCEPT !.phase = "done"]
    /\ UNCHANGED <<treeVars, randVars, dataVars, enums, build>>

\* the caller parses another ELF, after a parse that returned or raised
EParseAgain ==
    /\ extr.phase \in {"done", "failed"}
    /\ extr.calls < MaxParses
    /\ \E E \in Elfs : extr' = parse_dwarf_from_elf(extr, E)
    /\ UNCHANGED <<treeVars, randVars, dataVars, enums, build>>

ENext == EVisit \/ EReturn \/ EParseAgain

SpecExtract == EInit /\ [][ENext]_vars

-----------------------------------------------------------------------------
(* Instantiation of a type descriptor (create_type_instance and the        *)
(* constructors of BfStruct, BfUnion, BfDtype and BfArray).                 *)

\* the most arms of the unions handed to create_type_instance
MaxArms == 3

ArmNames == <<"lo", "hi", "raw", "ext", "aux">>

\* key.startswith("_")
StartsWithUnderscore(key) == key \in {"_rsvd", "_pad"}

Built(node) == [err |-> "", node |-> node]

Failed(e) == [err |-> e, node |-> Nil]

RECURSIVE NodeSize(_)
\* the _size property of a built node; Absent when it raises (self[0] of an empty list)
NodeSize(n) ==
    IF n.k # "array" THEN n.size
    ELSE IF n.elems = <<>> THEN Absent
    ELSE IF NodeSize(n.elems[1]) = Absent THEN Absent
    ELSE NodeSize(n.elems[1]) * Len(n.elems)

\* the first turn of a constructor's loop that raises, 0 when none does
FirstRaise(names, kids) ==
    LET bad == {i \in 1..Len(kids) : StartsWithUnderscore(names[i]) \/ kids[i].err # ""}
    IN IF bad = {} THEN 0 ELSE CHOOSE i \in bad : \A j \in bad : i <= j

\* every basic datatype is at least as wide as the others
TooNarrowNever(kids, bit_size) == FALSE

\* any(x._size < bit_size for x in basic_dtypes)
TooNarrow(kids, bit_size) ==
    \E i \in 1..Len(kids) : kids[i].node.k = "dtype" /\ kids[i].node.size < bit_size

RECURSIVE create_type_instance(_)
BfDtype(d) == Built([k |-> "dtype", size |-> 8 * d.bytes])

BfArray(d) ==
    LET kid == create_type_instance(d.elem)
    IN IF d.n = 0 THEN Built([k |-> "array", elems |-> <<>>])
       ELSE IF kid.err # "" THEN kid
       ELSE Built([k |-> "array", elems |-> [i \in 1..d.n |-> kid.node]])

BfStruct(d) ==
    LET names == [i \in 1..Len(d.members) |-> d.members[i].name]
        kids  == [i \in 1..Len(d.members) |-> create_type_instance(d.members[i].type)]
        bad   == FirstRaise(names, kids)
        Member(i) ==
            IF kids[i].node.k = "dtype" /\ d.members[i].size # Absent
            THEN [kids[i].node EXCEPT !.size = d.members[i].size]
            ELSE kids[i].node
    IN IF bad # 0
       THEN IF StartsWithUnderscore(names[bad]) THEN Failed("KeyError") ELSE kids[bad]
       ELSE IF d.size = Absent THEN Failed("ValueError: size not defined")
       ELSE Built([k |-> "struct", size |-> d.size,
                   members |-> [i \in 1..Len(kids) |->
                                  [name |-> names[i], node |-> Member(i),
                                   offset |-> d.members[i].bit_offset]]])

BfUnion(d) ==
    LET names == [i \in 1..Len(d.arms) |-> d.arms[i].name]
        kids  == [i \in 1..Len(d.arms) |-> create_type_instance(d.arms[i].type)]
        bad   == FirstRaise(names, kids)
        others == {i \in 1..Len(kids) : kids[i].node.k # "dtype"}
        bit_sizes == {NodeSize(kids[i].node) : i \in others}
        bit_size == CHOOSE s \in bit_sizes : TRUE
    IN IF bad # 0
       THEN IF StartsWithUnderscore(names[bad]) THEN Failed("KeyError") ELSE kids[bad]
       ELSE IF Absent \in bit_sizes THEN Failed("IndexError")
       ELSE IF Cardinality(bit_sizes) # 1 THEN Failed("ValueError: different sizes")
       ELSE IF TooNarrow(kids, bit_size) THEN Failed("ValueError: basic data type too small")
       ELSE Built([k |-> "union", size |-> bit_size,
                   arms |-> [i \in 1..Len(kids) |-> [name |-> names[i], node |-> kids[i].node]]])

create_type_instance(type_to_create) ==
    CASE type_to_create.k = "struct" -> BfStruct(type_to_create)
      [] type_to_create.k = "union" -> BfUnion(type_to_create)
      [] type_to_create.k = "base" /\ ~type_to_create.signed -> BfDtype(type_to_create)
      [] type_to_create.k = "list" -> BfArray(type_to_create)
      [] OTHER -> Failed("ValueError: unsupported type")

\* struct { u8 v; } of the given size, and the types an arm or an element may have
Plain(bits) == DStruct(bits, <<BitField("v", CBase(1, FALSE), Absent, 0)>>)

ArmTypes ==
    {CBase(1, FALSE), CBase(2, FALSE), CBase(4, TRUE), Plain(8), Plain(16),
     CList(CBase(1, FALSE), 0), CList(CBase(1, FALSE), 1), CList(CBase(1, FALSE), 2),
     DUnion(<<[name |-> "in", type |-> Plain(8)]>>)}

UnionOf(types) == DUnion([i \in 1..Len(types) |-> [name |-> ArmNames[i], type |-> types[i]]])

\* the arrays process_file_with_pattern extracts for struct Vec { u8 a[...]; }
ExtractedArrays ==
    {extract_type(ElfArray(b), NoCaches, "arr").ret :
        b \in {BoundDie(0), BoundDie(1), BoundDie(SENTINEL), CountDie(0), CountDie(2)}}

\* the descriptors handed to create_type_instance
BuildTypes ==
    {UnionOf(ts) : ts \in UNION {[1..n -> ArmTypes] : n \in 1..MaxArms}}
        \cup ArmTypes \cup ExtractedArrays
        \cup {DUnion(<<[name |-> "_rsvd", type |-> Plain(8)]>>),
              DStruct(Absent, <<BitField("v", CBase(1, FALSE), Absent, 0)>>),
              DStruct(8, <<BitField("_pad", CBase(1, FALSE), 3, 0)>>),
              DStruct(8, <<BitField("f", CBase(1, FALSE), 3, 0)>>),
              CList(Plain(8), 2), CList(CList(CBase(1, FALSE), 0), 2)}

BInit ==
    /\ lay = 1 /\ val = <<>> /\ isRand = <<>> /\ randMode = <<>>
    /\ phase = "idle" /\ preDone = FALSE /\ lastOp = NoOp
    /\ everRaised = FALSE /\ everNeg = FALSE /\ leafWraps = TRUE
    /\ cfg = 1 /\ ncmds = 0 /\ pc = "build" /\ cmdIdx = 0 /\ active = {}
    /\ cur = <<>> /\ frames = <<>> /\ events = <<>> /\ bin = <<>> /\ test = <<>> /\ heap = <<>>
    /\ dseed = 0 /\ dpat = "none" /\ dsize = 0 /\ run = <<>>
    /\ extr = <<>> /\ enums = <<>>
    /\ build \in {[type |-> d, pc |-> "new", out |-> Failed(""), size |-> Absent] :
                    d \in BuildTypes}

\* create_type_instance(types[name])
BCreate ==
    /\ build.pc = "new"
    /\ build' = [build EXCEPT !.out = create_type_instance(build.type),
                              !.pc = IF create_type_instance(build.type).err = ""
                                     THEN "built" ELSE "raised"]
    /\ UNCHANGED <<treeVars, randVars, dataVars, extr, enums>>

\* the _size of the instance is read
BSize ==
    /\ build.pc = "built"
    /\ build' = [build EXCEPT !.size = NodeSize(build.out.node),
                              !.pc = IF NodeSize(build.out.node) = Absent
                                     THEN "raised" ELSE "sized"]
    /\ UNCHANGED <<treeVars, randVars, dataVars, extr, enums>>

BNext == BCreate \/ BSize

SpecBuild == BInit /\ [][BNext]_vars

-----------------------------------------------------------------------------
(* The enum lookup object (BfEnums): enm.<name> for the names of a test.    *)

\* the most attribute accesses made on one BfEnums object
MaxLookups == 3

\* the names looked up
Symbols == {"FRAME_SINGLE", "FRAME_MULTI", "ON", "OFF", "lookup", "NONE"}

\* the attributes BfEnums.__init__ sets on the object
OwnAttributes == {"all_enums", "lookup"}

\* all_enums.values(): the tables in the insertion order of extracted["enums"]
Tables(d) == [i \in 1..Len(d) |-> d[i].val]

\* the enum tables of the tests: the tables ex in the given order, the same in the
\* opposite order, one table, and one whose enumerators include "lookup"
TablesLike(ex) ==
    {ex,
     [i \in 1..Len(ex) |-> ex[Len(ex) + 1 - i]],
     <<ex[1]>>,
     <<ex[1], ("lookup" :> 3) @@ ("ON" :> 1)>>}

\* ... for the tables process_file_with_pattern extracts from ElfEnums
EnumTables ==
    UNION {TablesLike(ex) : ex \in {Tables(x.enums) : x \in {Extracted(y) : y \in {NewParse(ElfEnums)}}}}

\* BfEnums(all_enums)
NewEnums(tables) ==
    [all_enums |-> tables, lookup |-> <<>>, n |-> 0, name |-> "", kind |-> "", value |-> 0]

\* the table the scan of __getattr__ stops at, 0 when it reaches the end
FirstWith(tables, name) ==
    LET has == {i \in 1..Len(tables) : name \in DOMAIN tables[i]}
    IN IF has = {} THEN 0 ELSE CHOOSE i \in has : \A j \in has : i <= j

\* enm.<name>: an attribute the object has is returned as it is; __getattr__ is
\* called for the other names only
GetAttr(en, name) ==
    LET i == FirstWith(en.all_enums, name)
        x == [en EXCEPT !.n = @ + 1, !.name = name]
    IN IF name \in OwnAttributes THEN [x EXCEPT !.kind = "object", !.value = 0]
       ELSE IF name \in DOMAIN en.lookup
       THEN [x EXCEPT !.kind = "value", !.value = en.lookup[name]]
       ELSE IF i # 0
       THEN [x EXCEPT !.kind = "value", !.value = en.all_enums[i][name],
                      !.lookup = (name :> en.all_enums[i][name]) @@ @]
       ELSE [x EXCEPT !.kind = "AttributeError", !.value = 0]

NInit ==
    /\ lay = 1 /\ val = <<>> /\ isRand = <<>> /\ randMode = <<>>
    /\ phase = "idle" /\ preDone = FALSE /\ lastOp = NoOp
    /\ everRaised = FALSE /\ everNeg = FALSE /\ leafWraps = TRUE
    /\ cfg = 1 /\ ncmds = 0 /\ pc = "enums" /\ cmdIdx = 0 /\ active = {}
    /\ cur = <<>> /\ frames = <<>> /\ events = <<>> /\ bin = <<>> /\ test = <<>> /\ heap = <<>>
    /\ dseed = 0 /\ dpat = "none" /\ dsize = 0 /\ run = <<>>
    /\ extr = <<>> /\ build = <<>>
    /\ enums \in {NewEnums(t) : t \in EnumTables}

NGetAttr ==
    /\ enums.n < MaxLookups
    /\ \E name \in Symbols : enums' = GetAttr(enums, name)
    /\ UNCHANGED <<treeVars, randVars, dataVars, extr, build>>

NNext == NGetAttr

SpecEnum == NInit /\ [][NNext]_vars

-----------------------------------------------------------------------------
(* Properties of the value tree *)

RECURSIVE SumMembers(_, _, _, _)
\* the sum over the members of n, from the i-th on, of (member value << member offset)
SumMembers(T, v, n, i) ==
    IF i > Len(T[n].kids) THEN 0
    ELSE v[T[n].kids[i]] * Pow2(OffsetOf(T, n, i)) + SumMembers(T, v, n, i + 1)

\* I1 at node n
Concatenates(T, v, n) ==
    T[n].kind \in {"struct", "array"} => v[n] = SumMembers(T, v, n, 1)

\* I3 at node n
Coherent(T, v, n) ==
    T[n].kind = "union" => \A i \in 1..Len(T[n].kids) : v[T[n].kids[i]] = v[n]

\* I2 at node n
InRange(T, v, n) == 0 <= v[n] /\ v[n] < Pow2(SizeOf(T, n))

\* C1: after any sequence of set_val (with accepted values), update_from_member and
\* post_rand, every Aggregate equals the sum of its members shifted to their
\* offsets and every Array the sum of its elements shifted to i * element size, on
\* every layout, padded ones included.
C1_BitConcatenation ==
    (phase = "idle" /\ ~everRaised /\ ~everNeg)
        => \A n \in Nodes(Tree(lay)) : Concatenates(Tree(lay), val, n)

\* C2: after any mutation of a tree with an Overlay, whether the call returned or
\* raised, every arm of the Overlay reports the overlay's value (a wider BaseInt
\* arm holds it zero-extended).
C2_OverlayCoherence ==
    (phase = "idle" /\ ~everNeg)
        => \A n \in Nodes(Tree(lay)) : Coherent(Tree(lay), val, n)

\* C3: in every state reached by calls that did not raise, every node v of every
\* shape has 0 <= get_val(v) < 2^bit_size(v).
C3_Range ==
    ~everRaised => \A n \in Nodes(Tree(lay)) : InRange(Tree(lay), val, n)

\* C4: set_val(v) on a node of any shape fails with the overflow error whenever v
\* is outside [0, 2^bit_size): when v >= 2^bit_size and when v < 0.
C4_RejectsOutOfRange ==
    (lastOp.op = "set_val" /\ lastOp.arg \in {"negative", "over"}) => lastOp.err

\* the members of structs and arrays
Members(T) == {n \in Nodes(T) : T[n].parent # 0 /\ T[T[n].parent].kind \in {"struct", "array"}}

\* the bit offset of member c inside its parent
WindowOf(T, c) == OffsetOf(T, T[c].parent, IndexOf(T[T[c].parent].kids, c))

\* C22: set_val(x) on a member of a struct or an array, with from_parent = false,
\* changes in the value of the parent only the bits [offset, offset + size) of that
\* member and leaves the value of every sibling as it was.
C22_SetValKeepsSiblings ==
    phase = "idle" =>
        \A c \in Members(Tree(lay)) : \A x \in InVals(Tree(lay), c) :
            LET T  == Tree(lay)
                p  == T[c].parent
                st == SetVal(T, leafWraps, Call(val), c, x, FALSE)
            IN /\ \A k \in Nodes(T) : (T[k].parent = p /\ k # c) => st.val[k] = val[k]
               /\ ReplaceWindow(st.val[p], WindowOf(T, c), SizeOf(T, c), 0)
                    = ReplaceWindow(val[p], WindowOf(T, c), SizeOf(T, c), 0)

\* a member of the padded struct has just been set while its sibling and the
\* padding bits of the struct hold ones
C22_Witness ==
    /\ Tree(lay) = Instantiate(LayPad)
    /\ lastOp.op = "set_val" /\ lastOp.kind = "dtype" /\ ~lastOp.err
    /\ val[3] = 1 /\ val[2] = 2
    /\ val[1] = 2 + 4 + 8 + 16

\* the ancestors of node n, the parent first and the root last
RECURSIVE Ancestors(_, _)
Ancestors(T, n) == IF T[n].parent = 0 THEN <<>> ELSE <<T[n].parent>> \o Ancestors(T, T[n].parent)

IsPrefix(s, t) == Len(s) <= Len(t) /\ \A i \in 1..Len(s) : s[i] = t[i]

\* C24: set_val with from_parent = true enters update_from_member on no node;
\* set_val with from_parent = false that returns normally enters it exactly once
\* on every ancestor of the node, the parent first, and on no other node; a call
\* that raises has entered it on the first ancestors of that chain only.
C24_UpdatesWalkTheAncestors ==
    phase = "idle" =>
        \A n \in Nodes(Tree(lay)) : \A x \in InVals(Tree(lay), n) :
            LET T    == Tree(lay)
                down == SetVal(T, leafWraps, Call(val), n, x, TRUE)
                up   == SetVal(T, leafWraps, Call(val), n, x, FALSE)
            IN /\ down.ups = <<>>
               /\ IsPrefix(up.ups, Ancestors(T, n))
               /\ ~up.err => up.ups = Ancestors(T, n)

\* C24 as stated: every set_val with from_parent = false enters update_from_member
\* on every ancestor, also the call that raises
C24_EveryCallReachesTheRoot ==
    phase = "idle" =>
        \A n \in Nodes(Tree(lay)) : \A x \in InVals(Tree(lay), n) :
            SetVal(Tree(lay), leafWraps, Call(val), n, x, FALSE).ups = Ancestors(Tree(lay), n)

\* a leaf three levels below the root has been set in a tree that has also seen a
\* raising call
C24_Witness ==
    /\ Tree(lay) = Instantiate(LayDeep)
    /\ lastOp.op = "set_val" /\ lastOp.kind = "dtype" /\ ~lastOp.err
    /\ everRaised
    /\ \E n \in Nodes(Tree(lay)) : Len(Ancestors(Tree(lay), n)) >= 3 /\ val[n] # 0

\* C26: a set_val call with from_parent = false that raises the overflow error
\* leaves the value of every node of the tree, the called node included, as it was
\* before the call.
C26_RaisingCallChangesNothing ==
    phase = "idle" =>
        \A n \in Nodes(Tree(lay)) : \A x \in InVals(Tree(lay), n) :
            LET st == SetVal(Tree(lay), leafWraps, Call(val), n, x, FALSE)
            IN  st.err => st.val = val

-----------------------------------------------------------------------------
(* Properties of the driver and the packer *)

IdNode == Resolve(FrameT, 1, <<"fields", "id">>)

\* C5: the i-th frame emitted has its id leaf, and with it the id bits of its
\* top-level value, equal to i mod 2^32 (here: modulo the word).
C5_IdIsIndex ==
    \A i \in 1..Len(frames) :
        /\ frames[i].val[IdNode] = LowBits(i - 1, WordBits)
        /\ LowBits(frames[i].val[1], WordBits) = LowBits(i - 1, WordBits)

\* the hard constraints of command index i hold over the node values v
HardOfIndex(v, i) ==
    /\ \A j \in 1..Len(UserConstr(Configs[cfg])) : Holds(v, UserConstr(Configs[cfg])[j])
    /\ i \in DOMAIN Configs[cfg].per =>
          \A j \in 1..Len(IdxConstr(Configs[cfg], i)) : Holds(v, IdxConstr(Configs[cfg], i)[j])

BuiltInHold(v) == \A j \in 1..Len(BaseSoft) : Holds(v, BaseSoft[j])

WithFrame(c) == {j \in 1..Len(c.glob) : c.glob[j].prefix = "frame."}

WithoutFrame(c) == {j \in 1..Len(c.glob) : c.glob[j].prefix # "frame."}

\* the entries of constraints_frame with frame. and every entry of the block of
\* command index i hold over the node values v
KeptHold(c, v, i) ==
    /\ \A j \in WithFrame(c) : Holds(v, c.glob[j].e)
    /\ i \in DOMAIN c.per => \A j \in 1..Len(c.per[i]) : Holds(v, c.per[i][j].e)

\* C27: an entry of constraints_frame constrains every solve if and only if its text
\* holds frame.: over every frame emitted the entries with frame. hold, and the
\* entries without it are dropped silently - the solve does not fail for them and
\* the frame is one the solver returns without them (the built-in constraints hold
\* whenever the entries kept allow it); every entry of the per-command block of the
\* frame's index holds, with or without frame. in its text.
C27_OnlyFramePrefixedGlobalsKept ==
    LET c == Configs[cfg]
        sat(i) == \E a \in RandAssignments(FrameT) : KeptHold(c, Written(FrameT, a), i)
    IN /\ \A i \in 1..Len(frames) :
             /\ KeptHold(c, frames[i].val, i - 1)
             /\ (\E a \in RandAssignments(FrameT) :
                     /\ KeptHold(c, Written(FrameT, a), i - 1)
                     /\ BuiltInHold(Written(FrameT, a)))
                   => BuiltInHold(frames[i].val)
       /\ (pc = "failed" /\ WithoutFrame(c) # {}) => ~sat(cmdIdx)

\* two frames were emitted under a configuration whose constraints_frame entry
\* self.fields.width == 0 is violated by both, and whose per-command entry
\* self.fields.count == 3 of index 1 holds over the second
C27_Witness ==
    /\ Len(frames) >= 2
    /\ WithoutFrame(Configs[cfg]) # {}
    /\ \A i \in 1..2 : \A j \in WithoutFrame(Configs[cfg]) :
          ~Holds(frames[i].val, Configs[cfg].glob[j].e)
    /\ \E j \in 1..Len(Configs[cfg].per[1]) :
          /\ Configs[cfg].per[1][j].prefix # "frame."
          /\ Holds(frames[2].val, Configs[cfg].per[1][j].e)
          /\ ~Holds(frames[1].val, Configs[cfg].per[1][j].e)

\* C7: in the solve for command index i the per-command block declared for K is
\* active if and only if i = K; nothing else is active.
C7_BlockActiveOnlyAtItsIndex ==
    pc \in {"post", "emit"} =>
        /\ \A k \in DOMAIN Configs[cfg].per : (k \in active) <=> (k = cmdIdx)
        /\ active \subseteq DOMAIN Configs[cfg].per

\* the solve for index 1 ran with the block of index 0 declared and not active
C7_Witness ==
    /\ pc = "post" /\ cmdIdx = 1
    /\ 0 \in DOMAIN Configs[cfg].per /\ active = {}

\* C8: the events of randomize_frames are solve(0), post_rand(0), yield(0),
\* solve(1), post_rand(1), yield(1), ... in this order.
C8_SolvePostRandYieldOrder ==
    \A j \in 1..Len(events) :
        events[j] = << <<"solve", "post_rand", "yield">>[((j - 1) % 3) + 1], (j - 1) \div 3 >>

\* the solver was entered for index 1 after frame 0 had been yielded
C8_Witness ==
    /\ Len(events) >= 4
    /\ events[3] = <<"yield", 0>> /\ events[4] = <<"solve", 1>>

\* the little-endian u32 stream read back: its j-th word
WordAt(b, j) ==
    LET Byte(k) == b[4 * (j - 1) + k]
    IN Byte(1) + Pow2(ByteBits) * (Byte(2) + Pow2(ByteBits) * (Byte(3) + Pow2(ByteBits) * Byte(4)))

WordsPerFrame == Len(FrameT[Resolve(FrameT, 1, <<"data">>)].kids)

RECURSIVE Reassembled(_, _, _)
\* the top-level integer of the i-th frame of the stream: the sum of w_k << 32 k
Reassembled(b, i, k) ==
    IF k > WordsPerFrame THEN 0
    ELSE WordAt(b, WordsPerFrame * (i - 1) + k) * Pow2(WordBits * (k - 1))
             + Reassembled(b, i, k + 1)

\* C10: the frame binary holds, per frame of top-level value V, the words
\* (V >> 32 k) & 0xFFFFFFFF in ascending k, each little-endian; V reassembled from
\* them and set on a fresh Frame tree gives every leaf the value it had.
C10_RoundTrip ==
    pc = "done" =>
        /\ Len(bin) = 4 * WordsPerFrame * Len(frames)
        /\ \A i \in 1..Len(frames) :
              /\ \A k \in 1..WordsPerFrame :
                    WordAt(bin, WordsPerFrame * (i - 1) + k)
                        = LowBits(Shr(frames[i].val[1], WordBits * (k - 1)), WordBits)
              /\ LET back == SetVal(FrameT, leafWraps, Call(Zero(FrameT)), 1,
                                    Reassembled(bin, i, 1), FALSE)
                 IN /\ ~back.err
                    /\ \A n \in Nodes(FrameT) :
                          FrameT[n].kind = "dtype" => back.val[n] = frames[i].val[n]

\* two frames whose bytes are not palindromes were written
C10_Witness ==
    /\ pc = "done" /\ Len(frames) = 2
    /\ frames[1].val[1] # frames[2].val[1]
    /\ \E j \in 1..Len(bin) : bin[j] # 0 /\ bin[j] # bin[((j - 1) \div 4) * 4 + 4 - ((j - 1) % 4)]

-----------------------------------------------------------------------------
(* Properties of two runs on the same input *)

BothDone == run[1].pc = "done" /\ run[2].pc = "done"

\* C9 as stated: two runs on the same configuration, seed and ELF write the same
\* frame binary, the same data binary and the same text snapshot, whatever the
\* data pattern.
C9_DeterministicAllPatterns ==
    BothDone => /\ run[1].fbin = run[2].fbin
                /\ run[1].text = run[2].text
                /\ run[1].dbin = run[2].dbin

\* C9: two runs on the same configuration, seed and ELF write the same frame
\* binary and the same text snapshot, and the same data binary for the patterns
\* INCR_STD, DECR_STD, INCR_RND and DECR_RND; under ALL_RND only the length of the
\* data binary is the same.
C9_DeterministicButAllRnd ==
    BothDone => /\ run[1].fbin = run[2].fbin
                /\ run[1].text = run[2].text
                /\ dpat # "ALL_RND" => run[1].dbin = run[2].dbin
                /\ Len(run[1].dbin) = Len(run[2].dbin)

\* two interpreters that started from different stream states, seeded alike, have
\* written frames and a data file counting from a drawn offset
C9_Witness ==
    /\ BothDone
    /\ run[1].rng0 # run[2].rng0
    /\ dpat = "INCR_RND" /\ Len(run[1].dbin) > 0
    /\ Len(run[1].fbin) > 0 /\ Len(run[1].text) > 0

-----------------------------------------------------------------------------
(* Properties of gen_frames and gen_data *)

\* C11: a test whose num_cmds is 0 gets an empty frame binary and an empty text
\* list, the binary's entry in test.files, params.file_frames, and
\* params.num_frames = 0.
C11_ZeroCmdsStillEmitsMetadata ==
    (ncmds = 0 /\ pc \in {"skipped", "done"}) =>
        /\ test.wrote /\ bin = <<>> /\ test.yml = <<>>
        /\ test.files = <<FileEntry("frames.bin")>>
        /\ DOMAIN test.params = {"file_frames", "num_frames"}
        /\ test.params["file_frames"] = "frames.bin"
        /\ test.params["num_frames"] = 0

\* C14: the frames of the list are distinct objects, none of them rand_desc, and every
\* node of frame i still has the value it had when frame i was yielded, whatever was
\* solved, post_rand-ed and set since.
C14_EmittedFramesFrozen ==
    pc \in {"fetch", "solve", "post", "emit", "pack", "done", "failed"} =>
        /\ Len(heap.ids) = Len(frames)
        /\ \A i, j \in 1..Len(heap.ids) : heap.ids[i] = heap.ids[j] => i = j
        /\ \A i \in 1..Len(heap.ids) :
              heap.ids[i] # heap.desc /\ heap.objs[heap.ids[i]] = frames[i]

\* two frames were yielded with different values, and the second has been solved,
\* post_rand-ed and set after the first was yielded
C14_Witness ==
    /\ pc = "done"
    /\ Len(frames) >= 2
    /\ frames[1] # frames[2]
    /\ Listed(heap)[1] = frames[1]

\* C13: when gen_data has returned, params.size_data is the number of bytes of the
\* data binary, for every pattern and every requested size, and for a custom file.
C13_SizeDataIsFileSize ==
    \A r \in DOMAIN run :
        run[r].pc = "done" => run[r].size_data = Len(run[r].dbin)

-----------------------------------------------------------------------------
(* Properties of pre_rand *)

\* the arms of union n that are declared random
RandArms(T, n) == {k \in Nodes(T) : T[k].parent = n /\ isRand[k]}

\* C17: once pre_rand has run on the root, every union of the tree has exactly one
\* arm with is_rand set and all its other arms with is_rand cleared.
C17_OneRandArmPerUnion ==
    preDone =>
        \A n \in Nodes(Tree(lay)) :
            Tree(lay)[n].kind = "union" => Cardinality(RandArms(Tree(lay), n)) = 1

\* the first arm, in the order the arms are declared, that is neither a basic
\* datatype nor an array, and failing that the first that is no basic datatype
FirstDeclared(T, n) ==
    LET nonDtype == SelectSeq(T[n].kids, LAMBDA k : T[k].kind # "dtype")
        nonArray == SelectSeq(nonDtype, LAMBDA k : T[k].kind # "array")
    IN IF nonArray # <<>> THEN Head(nonArray) ELSE Head(nonDtype)

\* C18: the arm pre_rand leaves random on the root union is the first arm in
\* declaration order that is neither a basic datatype nor an array, or else the
\* first in that order that is no basic datatype.
C18_FirstDeclaredArmChosen ==
    (preDone /\ Tree(lay)[1].kind = "union") =>
        RandArms(Tree(lay), 1) = {FirstDeclared(Tree(lay), 1)}

-----------------------------------------------------------------------------
(* Properties of the extractor *)

\* the named structure and union DIEs of the ELF, and the typedefs that resolve to one
RECURSIVE ResolvesToComposite(_, _)
ResolvesToComposite(E, k) ==
    CASE E.dies[k].tag \in {"DW_TAG_structure_type", "DW_TAG_union_type"} -> TRUE
      [] E.dies[k].tag = "DW_TAG_typedef" /\ E.dies[k].type # "" ->
            ResolvesToComposite(E, E.dies[k].type)
      [] OTHER -> FALSE

NamedComposites(E) ==
    {k \in DOMAIN E.dies : E.dies[k].name # "" /\ ResolvesToComposite(E, k)}

\* C12: when the extraction has returned, the types table has an entry under its
\* own name for every named structure or union DIE and every typedef resolving to
\* one, whatever the order of the DIEs.
C12_EveryNamedTypeExtracted ==
    (extr.phase = "done" /\ extr.warned = <<>>) =>
        \A k \in NamedComposites(extr.elf) :
            DictHas(extr.types, extr.elf.dies[k].name)

\* the bit-field members of the ELF whose DW_AT_bit_size is larger than the bit size
\* of their base type
OversizedBitFields(E) ==
    {k \in DOMAIN E.dies :
        /\ E.dies[k].tag = "DW_TAG_member"
        /\ E.dies[k].bit_size # Absent
        /\ E.dies[E.dies[k].type].tag = "DW_TAG_base_type"
        /\ E.dies[k].bit_size > 8 * E.dies[E.dies[k].type].byte_size}

\* C20: a bit-field whose bit size exceeds the bit size of its container type makes
\* the extraction fail: the parse never returns a table for such an ELF, and no
\* extracted structure holds such a member, whatever the container type.
C20_OversizedBitFieldRejected ==
    /\ (extr.phase = "done" => OversizedBitFields(extr.elf) = {})
    /\ \A i \in 1..Len(extr.types) :
          extr.types[i].val.k = "struct" =>
              \A j \in 1..Len(extr.types[i].val.members) :
                  LET m == extr.types[i].val.members[j]
                  IN (m.type.k = "base" /\ m.size # Absent) => m.size <= 8 * m.type.bytes

\* the bit-field members of struct DIE k whose container is a ctypes integer
BitFieldsOf(E, k) ==
    {m \in {E.dies[k].kids[i] : i \in 1..Len(E.dies[k].kids)} :
        /\ E.dies[m].tag = "DW_TAG_member"
        /\ E.dies[m].bit_size # Absent
        /\ E.dies[m].bit_offset # Absent
        /\ E.dies[E.dies[m].type].tag = "DW_TAG_base_type"
        /\ E.dies[E.dies[m].type].byte_size \in {1, 2, 4, 8}}

\* D as a two's complement number of the word: D - 2^w when the top bit is set
Sext(D) == IF D >= Pow2(WordBits - 1) THEN D - Pow2(WordBits) ELSE D

\* C25: a bit-field member with container size C, field size F, byte offset B and
\* raw DW_AT_bit_offset D is recorded with bit offset C - F - sext(D) + 8 * B and
\* with size F.
C25_BitFieldOffsetLittleEndian ==
    \A k \in DOMAIN extr.elf.dies :
        (extr.elf.dies[k].tag = "DW_TAG_structure_type" /\ DictHas(extr.types, NameOf(extr.elf, k)))
            => \A m \in BitFieldsOf(extr.elf, k) :
                 LET E   == extr.elf
                     rec == DictGet(extr.types, NameOf(E, k))
                     C   == 8 * E.dies[E.dies[m].type].byte_size
                     F   == E.dies[m].bit_size
                     B   == E.dies[m].loc
                     D   == E.dies[m].bit_offset
                 IN \E j \in 1..Len(rec.members) :
                        /\ rec.members[j].name = E.dies[m].name
                        /\ rec.members[j].size = F
                        /\ rec.members[j].bit_offset = C - F - Sext(D) + 8 * B

\* struct Two has been extracted with its bit-field in a 16-bit container at byte 1
\* and a negative DW_AT_bit_offset
C25_Witness ==
    /\ extr.phase = "done"
    /\ DictHas(extr.types, "Two")
    /\ \E m \in BitFieldsOf(extr.elf, "Two") :
          /\ extr.elf.dies[m].bit_offset >= Pow2(WordBits - 1)
          /\ extr.elf.dies[m].loc = 1
          /\ extr.elf.dies[extr.elf.dies[m].type].byte_size = 2
    /\ DictGet(extr.types, "Two").members[2].bit_offset = 16 - 2 + 3 + 8

\* C23: both caches keyed by DIE offset are empty when the extraction of a
\* parse_dwarf_from_elf call starts, and what a later call extracts is what a first
\* call on the same ELF extracts: nothing cached by an earlier parse is read.
C23_CachesEmptyAtEveryParse ==
    /\ (extr.phase = "parsing" /\ extr.pos = 1) =>
            /\ extr.st.types = <<>> /\ extr.st.enumvals = <<>>
            /\ extr.st.sizes = <<>>
    /\ extr.phase \in {"done", "failed"} =>
            \A fresh \in {Extracted(y) : y \in {NewParse(extr.elf)}} :
                /\ fresh.phase = extr.phase
                /\ fresh.types = extr.types /\ fresh.enums = extr.enums
                /\ fresh.st = extr.st

\* the second parse of the process has returned struct Bits with its 16-bit
\* container, read from the DIE offset every ELF of the bit-field family shares
C23_Witness ==
    /\ extr.calls = 2 /\ extr.phase = "done"
    /\ DictHas(extr.types, "Bits")
    /\ DictGet(extr.types, "Bits").members[1].type = CBase(2, FALSE)

\* the tags extract_type has a case for
ExtractableTags ==
    {"DW_TAG_typedef", "DW_TAG_structure_type", "DW_TAG_base_type", "DW_TAG_array_type",
     "DW_TAG_enumeration_type", "DW_TAG_union_type"}

RECURSIVE Unsupported(_, _)
\* the unsupported tags the extraction of DIE k comes to, through its type and the
\* types of its members
Unsupported(E, k) ==
    LET die == E.dies[k]
    IN IF die.tag \notin ExtractableTags THEN {die.tag}
       ELSE IF die.tag \in {"DW_TAG_structure_type", "DW_TAG_union_type"}
       THEN UNION {Unsupported(E, E.dies[die.kids[i]].type) : i \in 1..Len(die.kids)}
       ELSE IF die.tag \in {"DW_TAG_typedef", "DW_TAG_array_type"} /\ die.type # ""
       THEN Unsupported(E, die.type)
       ELSE {}

\* the top-level candidates the loop has passed, and those of them that come to an
\* unsupported tag
Visited(x) ==
    {x.elf.order[i] : i \in {j \in 1..(x.pos - 1) : x.elf.dies[x.elf.order[j]].tag \in supported_types}}

\* the DIEs that are the type of another DIE
Referenced(E) == {E.dies[k].type : k \in DOMAIN E.dies}

\* C21: a candidate whose extraction comes to a DIE with an unsupported tag is left
\* out of the tables, the parse goes on (it does not fail, and the structures it
\* visits that no other DIE refers to are in the tables), and the warnings hold every
\* unsupported tag that was met exactly once.
C21_UnsupportedSkippedWarnedOnce ==
    LET E == extr.elf
        hit == {k \in Visited(extr) : Unsupported(E, k) # {}}
    IN  /\ extr.phase # "failed"
        /\ \A k \in hit : ~DictHas(extr.types, NameOf(E, k)) /\ ~DictHas(extr.enums, NameOf(E, k))
        /\ \A k \in Visited(extr) \ hit :
              (E.dies[k].tag = "DW_TAG_structure_type" /\ k \notin Referenced(E))
                  => DictHas(extr.types, NameOf(E, k))
        /\ \A i, j \in 1..Len(extr.warned) : extr.warned[i] = extr.warned[j] => i = j
        /\ {extr.warned[i] : i \in 1..Len(extr.warned)} \subseteq UNION {Unsupported(E, k) : k \in hit}
        /\ \A k \in hit : Unsupported(E, k) \cap {extr.warned[i] : i \in 1..Len(extr.warned)} # {}

\* the parse has returned after two candidates came to the same unsupported tag and a
\* third to another one, with the struct behind them extracted
C21_Witness ==
    /\ extr.phase = "done"
    /\ Len(extr.warned) = 2
    /\ Cardinality({k \in Visited(extr) : Unsupported(extr.elf, k) # {}}) = 3
    /\ DictHas(extr.types, "After")

-----------------------------------------------------------------------------
(* Properties of the instantiation *)

\* the arms of the union under construction, as create_type_instance builds each
ArmsBuilt == [i \in 1..Len(build.type.arms) |-> create_type_instance(build.type.arms[i].type)]

\* a union whose arms have valid names, are built and have a size
UnionOfSizedArms ==
    /\ build.pc # "new"
    /\ build.type.k = "union"
    /\ \A i \in 1..Len(build.type.arms) :
          /\ ~StartsWithUnderscore(build.type.arms[i].name)
          /\ ArmsBuilt[i].err = ""
          /\ NodeSize(ArmsBuilt[i].node) # Absent

SentinelArray == extract_type(ElfArray(BoundDie(SENTINEL)), NoCaches, "arr").ret

\* C19: the array with the sentinel upper bound is extracted with length 0; its
\* instance is an empty sequence, and reading its bit size gives 0 and no error.
C19_SentinelArrayIsEmpty ==
    (build.type = SentinelArray /\ build.pc # "new") =>
        /\ build.type.k = "list" /\ build.type.n = 0
        /\ build.out.err = "" /\ build.out.node.elems = <<>>
        /\ build.pc # "raised"
        /\ build.pc = "sized" => build.size = 0

-----------------------------------------------------------------------------
(* Properties of the enum lookup *)

\* C16: a name that some table holds resolves to its value in the first table that
\* holds it, at the first lookup and at every later one; a name that no table holds
\* raises at every lookup and is never put in the memo.
C16_FirstTableWinsAndAbsentFails ==
    enums.n > 0 =>
        LET i == FirstWith(enums.all_enums, enums.name)
        IN /\ i # 0 => enums.kind = "value" /\ enums.value = enums.all_enums[i][enums.name]
           /\ i = 0 => enums.kind = "AttributeError"
           /\ \A s \in DOMAIN enums.lookup : FirstWith(enums.all_enums, s) # 0

====
